---- MODULE Spec2Model ----
(***************************************************************************)
(* Background jobs (BullMQ queues and workers, src/infrastructure/         *)
(* jobWorkers.ts) and real-time events (Redis PubSub, jobDashboard.ts, and *)
(* the GraphQL subscription resolvers) of the graphql-api server.          *)
(*                                                                         *)
(* The broker (Redis behind BullMQ's Queue and Worker classes) is an       *)
(* external library.  Its part is modelled by what these classes do with   *)
(* the options this repository hands them:                                 *)
(*   - Queue.add stores the job in `wait`, or in `delayed` when the merged *)
(*     options carry a positive delay, and rejects when Redis is down      *)
(*     (enableOfflineQueue: false);                                        *)
(*   - a Worker moves the head of `wait` to `active` while fewer than      *)
(*     `concurrency` jobs are active and the limiter allows it; the        *)
(*     limiter is a counter key that is incremented at every start and     *)
(*     expires `duration` ms after the first start that created it;        *)
(*   - a handler that returns moves its job to `completed`; a handler that *)
(*     throws moves it to `delayed` (backoff) when attemptsMade + 1 is     *)
(*     below opts.attempts and to `failed` otherwise;                      *)
(*   - a delayed job is promoted to `wait` once its time has come.         *)
(***************************************************************************)
EXTENDS Integers, Sequences, FiniteSets, TLC

(***************************************************************************)
(* Bounds of the model.                                                    *)
(***************************************************************************)
\* jobs accepted per behaviour of Spec
MaxJobs == 1
\* jobs waiting beyond the concurrency ceiling in the initial states of SpecLoad
MaxExtra == 1
\* handler failures per behaviour of SpecLoad
MaxThrows == 1
\* the clock's horizon, in ms
MaxTime == 70000
\* subscriptions opened per behaviour of SpecPubSub
MaxSubs == 2
\* UserEventPublisher calls per behaviour of SpecPubSub
MaxPublishes == 2
\* jobs in the initial states of SpecRate
MaxRateJobs == 4
\* handler failures per behaviour of SpecRate
MaxRateThrows == 3

\* SpecCleanup: the completed and the failed jobs past their grace on the queue
\* at the first cleanup, and the cleanups run
MaxAgedCompleted == 51

MaxAgedFailed == 41

MaxCleanups == 2

\* SpecShutdown: the jobs waiting on the queue when the behaviour starts
MaxShutdownJobs == 2

(***************************************************************************)
(* JOB_QUEUES, JOB_TYPES and the job data interfaces.                      *)
(***************************************************************************)
EMAIL == "email-queue"
USER_PROCESSING == "user-processing-queue"
NOTIFICATIONS == "notifications-queue"
DATA_EXPORT == "data-export-queue"

JOB_QUEUES == {EMAIL, USER_PROCESSING, NOTIFICATIONS, DATA_EXPORT}

SEND_WELCOME_EMAIL == "send-welcome-email"
SEND_PASSWORD_RESET == "send-password-reset"
PROCESS_USER_SIGNUP == "process-user-signup"
PROCESS_USER_DELETION == "process-user-deletion"
SEND_NOTIFICATION == "send-notification"
EXPORT_USER_DATA == "export-user-data"
CLEANUP_EXPIRED_TOKENS == "cleanup-expired-tokens"

\* the `type` union of EmailJobData, UserJobData, NotificationJobData, DataExportJobData
AllowedTypes ==
  [q \in JOB_QUEUES |->
     CASE q = EMAIL -> {SEND_WELCOME_EMAIL, SEND_PASSWORD_RESET}
       [] q = USER_PROCESSING -> {PROCESS_USER_SIGNUP, PROCESS_USER_DELETION}
       [] q = NOTIFICATIONS -> {SEND_NOTIFICATION}
       [] q = DATA_EXPORT -> {EXPORT_USER_DATA, CLEANUP_EXPIRED_TOKENS}]

\* a tag of no family: what a caller that is not type-checked can pass at run time
UnknownType == "unknown-type"

(***************************************************************************)
(* The workers' options: concurrency and limiter {max, duration}.          *)
(***************************************************************************)
WorkerConcurrency ==
  [q \in JOB_QUEUES |->
     CASE q = EMAIL -> 5
       [] q = USER_PROCESSING -> 3
       [] q = NOTIFICATIONS -> 8
       [] q = DATA_EXPORT -> 2]

LimiterMax ==
  [q \in JOB_QUEUES |->
     CASE q = EMAIL -> 10
       [] q = USER_PROCESSING -> 20
       [] q = NOTIFICATIONS -> 50
       [] q = DATA_EXPORT -> 5]

LimiterDuration == [q \in JOB_QUEUES |-> 60000]

(***************************************************************************)
(* Options.  A key a caller leaves out of `options` is Undefined.          *)
(***************************************************************************)
Undefined == 0 - 1

OptionKeys == {"delay", "attempts", "backoff", "removeOnComplete", "removeOnFail"}

NoOptions == [k \in OptionKeys |-> Undefined]

\* JavaScript's a || b on numbers: b when a is undefined or 0
OrElse(a, b) == IF a = Undefined \/ a = 0 THEN b ELSE a

\* { ...options, ...base }: the defaults written over the caller's options
SpreadDefaultsLast(base, options) ==
  [k \in OptionKeys |-> IF base[k] # Undefined THEN base[k] ELSE options[k]]

\* { ...base, ...options }: every key present in options replaces its default
Spread(base, options) ==
  [k \in OptionKeys |-> IF options[k] # Undefined THEN options[k] ELSE base[k]]

\* the options object each JobService.add*Job builds before Queue.add
EmailJobOptions(options) ==
  Spread([delay |-> OrElse(options["delay"], 0),
          attempts |-> OrElse(options["attempts"], 3),
          backoff |-> 2000,
          removeOnComplete |-> 10,
          removeOnFail |-> 5], options)

UserJobOptions(options) ==
  Spread([delay |-> Undefined,
          attempts |-> OrElse(options["attempts"], 3),
          backoff |-> 1000,
          removeOnComplete |-> 20,
          removeOnFail |-> 10], options)

NotificationJobOptions(options) ==
  Spread([delay |-> Undefined,
          attempts |-> OrElse(options["attempts"], 5),
          backoff |-> 1500,
          removeOnComplete |-> 15,
          removeOnFail |-> 8], options)

DataExportJobOptions(options) ==
  Spread([delay |-> Undefined,
          attempts |-> OrElse(options["attempts"], 2),
          backoff |-> 5000,
          removeOnComplete |-> 5,
          removeOnFail |-> 3], options)

JobOptions(q, options) ==
  CASE q = EMAIL -> EmailJobOptions(options)
    [] q = USER_PROCESSING -> UserJobOptions(options)
    [] q = NOTIFICATIONS -> NotificationJobOptions(options)
    [] q = DATA_EXPORT -> DataExportJobOptions(options)

(***************************************************************************)
(* State.                                                                  *)
(***************************************************************************)
VARIABLES
  jobs,       \* the jobs the broker holds, by id (1, 2, ...): Seq of job records
  wait,       \* per queue, the ids of the waiting jobs, oldest first
  limiter,    \* per queue, the rate limiter key: [count, expireAt]
  startLog,   \* per queue, the times of the job starts of the last `duration` ms
  throws,     \* handler failures so far
  now,        \* the clock, in ms
  redisUp,    \* whether the queue-side Redis connection is usable
  lastCall,   \* how the latest JobService call ended
  subs,       \* the subscriptions opened so far: Seq of subscription records
  pubsubUp,   \* whether the PubSub-side Redis connection is usable
  published,  \* number of UserEventPublisher calls so far
  sent,       \* per topic, the payloads pubSub.publish has accepted, in order
  lastPublish, \* how the latest UserEventPublisher call ended
  cleanup,    \* the latest JobService.cleanupQueues call: where it is and its results
  workers,    \* per queue, its worker: "running", "closing" or "closed"
  conn,       \* the queue-side connection `redis`: "ready" or "end"
  shutdown,   \* the SIGINT handler: where it is and how its calls ended
  boot,       \* bootstrap: where it is and how its calls ended
  stalled,    \* 'stalled' notifications not yet handled, and the warnings logged
  gw,         \* the WebSocket gateway: its server and its connections
  dash,       \* the dashboard gate: the process environment and its responses
  mut,        \* the user mutation in progress: its step and the calls it has made
  stats       \* the latest JobService.getQueueStats call: where it is and its map

jobVars == <<jobs, wait, limiter, startLog, throws, now, redisUp, lastCall>>

pubsubVars == <<subs, pubsubUp, published, sent, lastPublish>>

opsVars == <<cleanup, workers, conn, shutdown>>

auxVars == <<boot, stalled, gw, dash, mut, stats>>

vars == <<jobVars, pubsubVars, opsVars, auxVars>>

Ids == 1..Len(jobs)

JobsOf(q, st) == {i \in Ids : jobs[i].queue = q /\ jobs[i].status = st}

NoCall ==
  [op |-> "none", outcome |-> "none", jobId |-> 0, errorLogs |-> 0,
   options |-> NoOptions]

NoResult == [success |-> FALSE, stamp |-> "none"]

NewJob(q, name, opts) ==
  [queue |-> q, name |-> name, opts |-> opts,
   status |-> IF opts["delay"] > 0 THEN "delayed" ELSE "waiting",
   processAt |-> IF opts["delay"] > 0 THEN now + opts["delay"] ELSE 0,
   attemptsMade |-> 0, progress |-> 0, finishedOn |-> 0,
   handlers |-> 0, stalledCounter |-> 0, lockLost |-> FALSE,
   failedReason |-> "none", returnvalue |-> NoResult,
   starts |-> 0, runs |-> 0, reported |-> <<>>, delays |-> <<>>,
   raised |-> "none", errorLogs |-> 0, warnLogs |-> 0]

(***************************************************************************)
(* JobService.add*Job: Queue.add inside try/catch; the catch logs and      *)
(* rethrows.                                                               *)
(***************************************************************************)
\* an add*Job whose catch logs the error and returns
QueueAddSwallowing(op, q, name, options) ==
  IF redisUp
  THEN LET id == Len(jobs) + 1
           job == NewJob(q, name, JobOptions(q, options))
       IN /\ jobs' = Append(jobs, job)
          /\ wait' = IF job.status = "waiting"
                     THEN [wait EXCEPT ![q] = Append(@, id)]
                     ELSE wait
          /\ lastCall' = [op |-> op, outcome |-> "returned", jobId |-> id,
                          errorLogs |-> 0, options |-> options]
  ELSE /\ lastCall' = [op |-> op, outcome |-> "returned", jobId |-> 0,
                       errorLogs |-> 1, options |-> options]
       /\ UNCHANGED <<jobs, wait>>

QueueAdd(op, q, name, options) ==
  IF redisUp
  THEN LET id == Len(jobs) + 1
           job == NewJob(q, name, JobOptions(q, options))
       IN /\ jobs' = Append(jobs, job)
          /\ wait' = IF job.status = "waiting"
                     THEN [wait EXCEPT ![q] = Append(@, id)]
                     ELSE wait
          /\ lastCall' = [op |-> op, outcome |-> "returned", jobId |-> id,
                          errorLogs |-> 0, options |-> options]
  ELSE /\ lastCall' = [op |-> op, outcome |-> "threw", jobId |-> 0,
                       errorLogs |-> 1, options |-> options]
       /\ UNCHANGED <<jobs, wait>>

addEmailJob(name, options) ==
  /\ QueueAdd("addEmailJob", EMAIL, name, options)
  /\ UNCHANGED <<limiter, startLog, throws, now, redisUp>>
  /\ UNCHANGED <<pubsubVars, opsVars, auxVars>>

addUserJob(name, options) ==
  /\ QueueAdd("addUserJob", USER_PROCESSING, name, options)
  /\ UNCHANGED <<limiter, startLog, throws, now, redisUp>>
  /\ UNCHANGED <<pubsubVars, opsVars, auxVars>>

addNotificationJob(name, options) ==
  /\ QueueAdd("addNotificationJob", NOTIFICATIONS, name, options)
  /\ UNCHANGED <<limiter, startLog, throws, now, redisUp>>
  /\ UNCHANGED <<pubsubVars, opsVars, auxVars>>

addDataExportJob(name, options) ==
  /\ QueueAdd("addDataExportJob", DATA_EXPORT, name, options)
  /\ UNCHANGED <<limiter, startLog, throws, now, redisUp>>
  /\ UNCHANGED <<pubsubVars, opsVars, auxVars>>

(***************************************************************************)
(* The four processors.  A processor runs from its invocation to its       *)
(* return or throw; the calls that can reject are its job.updateProgress   *)
(* calls.  failAt = k > 0 makes the k-th updateProgress call reject with   *)
(* err; failAt = 0 lets every call succeed.  `steps` are the progress      *)
(* values the processor reports, `warnAt` the number of updateProgress     *)
(* calls that precede the `default:` branch of its switch.                 *)
(***************************************************************************)
Errors == {"ECONNRESET", "Missing key for job"}

\* a processor whose catch logs the error and does not rethrow it
RunProcessorSwallowing(steps, warnAt, known, ret, failAt, err) ==
  LET fails == failAt > 0 /\ failAt <= Len(steps)
      done == IF fails THEN SubSeq(steps, 1, failAt - 1) ELSE steps
  IN [threw |-> FALSE,
      tries |-> 1,
      reported |-> done,
      raised |-> IF fails THEN err ELSE "none",
      thrown |-> "none",
      returnvalue |-> IF fails THEN NoResult ELSE ret,
      errorLogs |-> IF fails THEN 1 ELSE 0,
      warnLogs |-> IF ~known /\ Len(done) >= warnAt THEN 1 ELSE 0]

\* a processor whose catch runs the steps once more before it gives up
RunProcessorRetrying(steps, warnAt, known, ret, failAt, err) ==
  LET fails == failAt > 0 /\ failAt <= Len(steps)
      done == IF fails THEN SubSeq(steps, 1, failAt - 1) ELSE steps
  IN [threw |-> fails,
      tries |-> IF fails THEN 2 ELSE 1,
      reported |-> done,
      raised |-> IF fails THEN err ELSE "none",
      thrown |-> IF fails THEN err ELSE "none",
      returnvalue |-> IF fails THEN NoResult ELSE ret,
      errorLogs |-> IF fails THEN 1 ELSE 0,
      warnLogs |-> IF ~known /\ Len(done) >= warnAt THEN 1 ELSE 0]

\* a processor whose default branch throws instead of warning
RunProcessorRejectingUnknown(steps, warnAt, known, ret, failAt, err) ==
  LET fails == (failAt > 0 /\ failAt <= Len(steps)) \/ ~known
      done == IF failAt > 0 /\ failAt <= Len(steps)
              THEN SubSeq(steps, 1, failAt - 1) ELSE steps
      error == IF failAt > 0 /\ failAt <= Len(steps) THEN err ELSE "Unknown job type"
  IN [threw |-> fails,
      tries |-> 1,
      reported |-> done,
      raised |-> IF fails THEN error ELSE "none",
      thrown |-> IF fails THEN error ELSE "none",
      returnvalue |-> IF fails THEN NoResult ELSE ret,
      errorLogs |-> IF fails THEN 1 ELSE 0,
      warnLogs |-> 0]

\* try { ...steps...; return ret } catch (error) { logger.error(...); throw error }
\* `tries` counts the executions of the try block, `raised` is the error that
\* reached the catch and `thrown` the error that leaves the processor
RunProcessor(steps, warnAt, known, ret, failAt, err) ==
  LET fails == failAt > 0 /\ failAt <= Len(steps)
      done == IF fails THEN SubSeq(steps, 1, failAt - 1) ELSE steps
  IN [threw |-> fails,
      tries |-> 1,
      reported |-> done,
      raised |-> IF fails THEN err ELSE "none",
      thrown |-> IF fails THEN err ELSE "none",
      returnvalue |-> IF fails THEN NoResult ELSE ret,
      errorLogs |-> IF fails THEN 1 ELSE 0,
      warnLogs |-> IF ~known /\ Len(done) >= warnAt THEN 1 ELSE 0]

\* a processor that stops reporting at 50
EmailStepsHalf(name) == <<50>>

EmailSteps(name) == <<100>>

processEmailJob(job, failAt, err) ==
  RunProcessor(EmailSteps(job.name), 0,
               job.name \in {SEND_WELCOME_EMAIL, SEND_PASSWORD_RESET},
               [success |-> TRUE, stamp |-> "sentAt"], failAt, err)

UserSteps(name) ==
  CASE name = PROCESS_USER_SIGNUP -> <<25, 50, 75, 100>>
    [] name = PROCESS_USER_DELETION -> <<25, 50, 75, 100>>
    [] OTHER -> <<25>>

processUserJob(job, failAt, err) ==
  RunProcessor(UserSteps(job.name), 1,
               job.name \in {PROCESS_USER_SIGNUP, PROCESS_USER_DELETION},
               [success |-> TRUE, stamp |-> "processedAt"], failAt, err)

\* the switch of this processor is on data.channel and has no default branch
NotificationSteps(name) == <<25, 75, 100>>

processNotificationJob(job, failAt, err) ==
  RunProcessor(NotificationSteps(job.name), 0, TRUE,
               [success |-> TRUE, stamp |-> "deliveredAt"], failAt, err)

\* a processor that reports its last checkpoint before the one in the middle
DataExportStepsUnordered(name) ==
  CASE name = EXPORT_USER_DATA -> <<10, 40, 70, 100, 90>>
    [] name = CLEANUP_EXPIRED_TOKENS -> <<10, 100, 50>>
    [] OTHER -> <<10>>

DataExportSteps(name) ==
  CASE name = EXPORT_USER_DATA -> <<10, 40, 70, 90, 100>>
    [] name = CLEANUP_EXPIRED_TOKENS -> <<10, 50, 100>>
    [] OTHER -> <<10>>

processDataExportJob(job, failAt, err) ==
  RunProcessor(DataExportSteps(job.name), 1,
               job.name \in {EXPORT_USER_DATA, CLEANUP_EXPIRED_TOKENS},
               [success |-> TRUE, stamp |-> "completedAt"], failAt, err)

\* new Worker(JOB_QUEUES.X, processXJob, ...): the processor a queue's worker runs
Processor(job, failAt, err) ==
  CASE job.queue = EMAIL -> processEmailJob(job, failAt, err)
    [] job.queue = USER_PROCESSING -> processUserJob(job, failAt, err)
    [] job.queue = NOTIFICATIONS -> processNotificationJob(job, failAt, err)
    [] job.queue = DATA_EXPORT -> processDataExportJob(job, failAt, err)

\* the largest number of updateProgress calls of a processor
MaxSteps == 5

(***************************************************************************)
(* The workers.                                                            *)
(***************************************************************************)
\* the limiter key's value: an expired key counts as 0
LimiterCount(q) == IF now >= limiter[q].expireAt THEN 0 ELSE limiter[q].count

\* a worker built without `limiter`
LimiterAllowsUnlimited(q) == TRUE

\* limiter: { max, duration }
LimiterAllows(q) == LimiterCount(q) < LimiterMax[q]

\* a worker that fetches whenever a job waits
HasFreeSlotUnbounded(q) == TRUE

\* concurrency: a worker fetches a job only while it has a free slot
HasFreeSlot(q) == Cardinality(JobsOf(q, "active")) < WorkerConcurrency[q]

InWindow(q, t) == t + LimiterDuration[q] > now

\* a fetch that starts the oldest waiting job and leaves it in wait
ClaimLeavingInWait(q) ==
  /\ redisUp
  /\ workers[q] = "running"
  /\ wait[q] # <<>>
  /\ HasFreeSlot(q)
  /\ LimiterAllows(q)
  /\ LET id == Head(wait[q])
     IN /\ jobs' = [jobs EXCEPT ![id].status = "active",
                                ![id].starts = @ + 1,
                                ![id].handlers = @ + 1,
                                ![id].reported = <<>>]
        /\ wait' = wait
        /\ limiter' = [limiter EXCEPT ![q] =
                         IF LimiterCount(q) = 0
                         THEN [count |-> 1, expireAt |-> now + LimiterDuration[q]]
                         ELSE [count |-> @.count + 1, expireAt |-> @.expireAt]]
        /\ startLog' = [startLog EXCEPT ![q] =
                          Append(SelectSeq(@, LAMBDA t : InWindow(q, t)), now)]
  /\ UNCHANGED <<throws, now, redisUp, lastCall>>
  /\ UNCHANGED <<pubsubVars, opsVars, auxVars>>

\* a worker that goes on fetching while it is closing
ClaimWhileClosing(q) ==
  /\ redisUp
  /\ workers[q] # "closed"
  /\ wait[q] # <<>>
  /\ HasFreeSlot(q)
  /\ LimiterAllows(q)
  /\ LET id == Head(wait[q])
     IN /\ jobs' = [jobs EXCEPT ![id].status = "active",
                                ![id].starts = @ + 1,
                                ![id].handlers = @ + 1,
                                ![id].reported = <<>>]
        /\ wait' = [wait EXCEPT ![q] = Tail(@)]
        /\ limiter' = [limiter EXCEPT ![q] =
                         IF LimiterCount(q) = 0
                         THEN [count |-> 1, expireAt |-> now + LimiterDuration[q]]
                         ELSE [count |-> @.count + 1, expireAt |-> @.expireAt]]
        /\ startLog' = [startLog EXCEPT ![q] =
                          Append(SelectSeq(@, LAMBDA t : InWindow(q, t)), now)]
  /\ UNCHANGED <<throws, now, redisUp, lastCall>>
  /\ UNCHANGED <<pubsubVars, opsVars, auxVars>>

\* the worker of queue q takes the oldest waiting job and starts its processor
Claim(q) ==
  /\ redisUp
  /\ workers[q] = "running"
  /\ wait[q] # <<>>
  /\ HasFreeSlot(q)
  /\ LimiterAllows(q)
  /\ LET id == Head(wait[q])
     IN /\ jobs' = [jobs EXCEPT ![id].status = "active",
                                ![id].starts = @ + 1,
                                ![id].handlers = @ + 1,
                                ![id].reported = <<>>]
        /\ wait' = [wait EXCEPT ![q] = Tail(@)]
        /\ limiter' = [limiter EXCEPT ![q] =
                         IF LimiterCount(q) = 0
                         THEN [count |-> 1, expireAt |-> now + LimiterDuration[q]]
                         ELSE [count |-> @.count + 1, expireAt |-> @.expireAt]]
        /\ startLog' = [startLog EXCEPT ![q] =
                          Append(SelectSeq(@, LAMBDA t : InWindow(q, t)), now)]
  /\ UNCHANGED <<throws, now, redisUp, lastCall>>
  /\ UNCHANGED <<pubsubVars, opsVars, auxVars>>

\* backoff: { type: 'fixed', delay }: the same delay after every failure
BackoffFixed(delay, attemptsMade) ==
  IF delay = Undefined THEN 0 ELSE delay

\* backoff: { type: 'exponential', delay }: delay * 2^(attemptsMade - 1)
Backoff(delay, attemptsMade) ==
  IF delay = Undefined THEN 0 ELSE delay * 2 ^ (attemptsMade - 1)

\* the processor returned: the job is moved to completed with its return value
\* the finished jobs of queue q in state st among js, and those of them that
\* finished after job i (of two that finished together, the one added later)
FinishedIn(js, q, st) ==
  {i \in DOMAIN js : js[i].queue = q /\ js[i].status = st}

FinishedAfter(js, i) ==
  {k \in FinishedIn(js, js[i].queue, js[i].status) :
     \/ js[k].finishedOn > js[i].finishedOn
     \/ js[k].finishedOn = js[i].finishedOn /\ k > i}

\* removeOnComplete / removeOnFail of the job that has just finished: a count
\* keeps that many of the newest finished jobs of the set and removes the
\* others, no count (undefined) keeps them all
Trim(js, id, count) ==
  IF count < 0 THEN js
  ELSE [i \in DOMAIN js |->
          IF /\ i \in FinishedIn(js, js[id].queue, js[id].status)
             /\ Cardinality(FinishedAfter(js, i)) >= count
          THEN [js[i] EXCEPT !.status = "removed"]
          ELSE js[i]]

MoveToCompleted(id, out) ==
  LET js == [jobs EXCEPT ![id].status = "completed",
                         ![id].finishedOn = now,
                         ![id].handlers = @ - 1,
                         ![id].runs = @ + out.tries,
                         ![id].attemptsMade = @ + 1,
                         ![id].raised = out.raised,
                         ![id].errorLogs = @ + out.errorLogs,
                         ![id].reported = out.reported,
                         ![id].progress = IF out.reported = <<>> THEN @
                                          ELSE out.reported[Len(out.reported)],
                         ![id].warnLogs = @ + out.warnLogs,
                         ![id].returnvalue = out.returnvalue]
  IN /\ jobs' = Trim(js, id, jobs[id].opts["removeOnComplete"])
     /\ wait' = wait

\* a broker that retries whatever `attempts` says
AttemptsRemainAlways(job, made) == TRUE

\* attempts: the job is retried while it has made fewer attempts than opts.attempts
AttemptsRemain(job, made) == made < job.opts["attempts"]

\* the processor threw: the job is retried after its backoff while attempts remain,
\* and is moved to failed otherwise
MoveToFailed(id, out) ==
  LET job == jobs[id]
      made == job.attemptsMade + 1
      retry == AttemptsRemain(job, made)
      delay == Backoff(job.opts["backoff"], made)
      base == [jobs EXCEPT ![id].runs = @ + out.tries,
                           ![id].attemptsMade = made,
                           ![id].handlers = @ - 1,
                           ![id].reported = out.reported,
                           ![id].progress = IF out.reported = <<>> THEN @
                                            ELSE out.reported[Len(out.reported)],
                           ![id].warnLogs = @ + out.warnLogs,
                           ![id].errorLogs = @ + out.errorLogs,
                           ![id].raised = out.raised,
                           ![id].failedReason = out.thrown]
  IN IF retry /\ delay > 0
     THEN /\ jobs' = [base EXCEPT ![id].status = "delayed",
                                  ![id].processAt = now + delay,
                                  ![id].delays = Append(@, delay)]
          /\ wait' = wait
     ELSE IF retry
     THEN /\ jobs' = [base EXCEPT ![id].status = "waiting",
                                  ![id].delays = Append(@, 0)]
          /\ wait' = [wait EXCEPT ![job.queue] = Append(@, id)]
     ELSE /\ jobs' = Trim([base EXCEPT ![id].status = "failed",
                                        ![id].finishedOn = now],
                          id, job.opts["removeOnFail"])
          /\ wait' = wait

\* one run of the processor on an active job, and the worker's report of its outcome
Process(id, failAt, err) ==
  /\ redisUp
  /\ id \in Ids
  /\ jobs[id].status = "active"
  /\ jobs[id].handlers > 0
  /\ ~jobs[id].lockLost
  /\ LET out == Processor(jobs[id], failAt, err)
     IN /\ IF out.threw THEN MoveToFailed(id, out) ELSE MoveToCompleted(id, out)
        /\ throws' = IF out.threw THEN throws + 1 ELSE throws
  /\ UNCHANGED <<limiter, startLog, now, redisUp, lastCall>>
  /\ UNCHANGED <<pubsubVars, opsVars, auxVars>>

\* a broker that discards a delayed job when its time has come
PromoteDiscarding(id) ==
  /\ redisUp
  /\ id \in Ids
  /\ jobs[id].status = "delayed"
  /\ jobs[id].processAt <= now
  /\ jobs' = [jobs EXCEPT ![id].status = "removed"]
  /\ UNCHANGED <<wait, limiter, startLog, throws, now, redisUp, lastCall>>
  /\ UNCHANGED <<pubsubVars, opsVars, auxVars>>

\* a delayed job whose time has come is moved to the tail of wait
Promote(id) ==
  /\ redisUp
  /\ id \in Ids
  /\ jobs[id].status = "delayed"
  /\ jobs[id].processAt <= now
  /\ jobs' = [jobs EXCEPT ![id].status = "waiting"]
  /\ wait' = [wait EXCEPT ![jobs[id].queue] = Append(@, id)]
  /\ UNCHANGED <<limiter, startLog, throws, now, redisUp, lastCall>>
  /\ UNCHANGED <<pubsubVars, opsVars, auxVars>>

(***************************************************************************)
(* The environment: time and the Redis connection.                         *)
(***************************************************************************)
\* the times at which a timer of the broker is due
Deadlines ==
  {jobs[i].processAt : i \in {k \in Ids : jobs[k].status = "delayed"}}
    \cup {limiter[q].expireAt : q \in JOB_QUEUES}

\* time passes until the next timer is due
Tick ==
  /\ \E t \in Deadlines :
       /\ t > now
       /\ t <= MaxTime
       /\ \A u \in Deadlines : u > now => t <= u
       /\ now' = t
  /\ UNCHANGED <<jobs, wait, limiter, startLog, throws, redisUp, lastCall>>
  /\ UNCHANGED <<pubsubVars, opsVars, auxVars>>

RedisDown ==
  /\ redisUp
  /\ redisUp' = FALSE
  /\ UNCHANGED <<jobs, wait, limiter, startLog, throws, now, lastCall>>
  /\ UNCHANGED <<pubsubVars, opsVars, auxVars>>

RedisBack ==
  /\ ~redisUp
  /\ redisUp' = TRUE
  /\ UNCHANGED <<jobs, wait, limiter, startLog, throws, now, lastCall>>
  /\ UNCHANGED <<pubsubVars, opsVars, auxVars>>

(***************************************************************************)
(* Stalled jobs.  A worker renews the lock of a job (lockDuration 30 s)    *)
(* while the job's handler runs.  When Redis does not answer for longer    *)
(* than that, the lock runs out, whether the handler has ended by then or  *)
(* is still waiting for an answer.  The stalled check moves an active job  *)
(* without a lock back to the head of wait, or fails it once it has        *)
(* stalled more than maxStalledCount times, and emits 'stalled' to the     *)
(* worker's listeners and on the queue's event stream.  The outcome of a   *)
(* handler whose job has lost its lock is refused by the broker.           *)
(***************************************************************************)
MaxStalledCount == 1

\* Redis has been out of reach for longer than lockDuration
LockExpires(id) ==
  /\ ~redisUp
  /\ id \in Ids
  /\ jobs[id].status = "active"
  /\ ~jobs[id].lockLost
  /\ jobs' = [jobs EXCEPT ![id].lockLost = TRUE]
  /\ UNCHANGED <<wait, limiter, startLog, throws, now, redisUp, lastCall>>
  /\ UNCHANGED <<pubsubVars, opsVars, auxVars>>

\* a handler ends and the broker does not take its outcome: Redis is away,
\* or the job is no longer this handler's (its lock ran out, it was handed
\* out again or it has finished)
HandlerEndsUnreported(id) ==
  /\ id \in Ids
  /\ jobs[id].handlers > 0
  /\ \/ ~redisUp
     \/ jobs[id].lockLost
     \/ jobs[id].status # "active"
     \/ jobs[id].handlers > 1
  /\ jobs' = [jobs EXCEPT ![id].handlers = @ - 1,
                          ![id].runs = @ + 1,
                          ![id].errorLogs = @ + 1]
  /\ UNCHANGED <<wait, limiter, startLog, throws, now, redisUp, lastCall>>
  /\ UNCHANGED <<pubsubVars, opsVars, auxVars>>

\* the stalled check of the broker on an active job that has lost its lock
MoveStalledJobsToWait(id) ==
  /\ redisUp
  /\ id \in Ids
  /\ jobs[id].status = "active"
  /\ jobs[id].lockLost
  /\ IF jobs[id].stalledCounter < MaxStalledCount
     THEN /\ jobs' = [jobs EXCEPT ![id].status = "waiting",
                                  ![id].lockLost = FALSE,
                                  ![id].stalledCounter = @ + 1]
          /\ wait' = [wait EXCEPT ![jobs[id].queue] = <<id>> \o @]
          /\ stalled' = [stalled EXCEPT !.worker = Append(@, id),
                                        !.events = Append(@, id)]
     ELSE /\ jobs' = Trim([jobs EXCEPT
                             ![id].status = "failed",
                             ![id].lockLost = FALSE,
                             ![id].finishedOn = now,
                             ![id].failedReason =
                               "job stalled more than allowable limit"],
                          id, jobs[id].opts["removeOnFail"])
          /\ wait' = wait
          /\ stalled' = stalled
  /\ UNCHANGED <<limiter, startLog, throws, now, redisUp, lastCall, boot, gw, dash, mut, stats>>
  /\ UNCHANGED <<pubsubVars, opsVars>>

\* a worker listener that puts the stalled job back itself
workerOnStalledRetrying ==
  /\ stalled.worker # <<>>
  /\ stalled' = [stalled EXCEPT !.worker = Tail(@), !.warnLogs = @ + 1]
  /\ jobs' = [jobs EXCEPT ![Head(stalled.worker)].attemptsMade = @ + 1]
  /\ UNCHANGED <<wait, limiter, startLog, throws, now, redisUp, lastCall, boot, gw, dash, mut, stats>>
  /\ UNCHANGED <<pubsubVars, opsVars>>

\* worker.on('stalled'): logger.warn
workerOnStalled ==
  /\ stalled.worker # <<>>
  /\ stalled' = [stalled EXCEPT !.worker = Tail(@), !.warnLogs = @ + 1]
  /\ UNCHANGED <<jobVars, pubsubVars, opsVars, boot, gw, dash, mut, stats>>

\* events.on('stalled'): logger.warn
eventsOnStalled ==
  /\ stalled.events # <<>>
  /\ stalled' = [stalled EXCEPT !.events = Tail(@), !.warnLogs = @ + 1]
  /\ UNCHANGED <<jobVars, pubsubVars, opsVars, boot, gw, dash, mut, stats>>

(***************************************************************************)
(* JobService.cleanupQueues: for each queue of `queues` in turn, the two   *)
(* Queue.clean calls awaited together, then the push of what they removed. *)
(* Queue.clean(grace, limit, type) removes the jobs of the set `type` that *)
(* finished at or before now - grace, oldest first, `limit` of them at     *)
(* most, and resolves to their ids (here the set of them); it rejects when *)
(* Redis is unreachable.                                                   *)
(***************************************************************************)
CompletedGrace == 24 * 60 * 60 * 1000

FailedGrace == 7 * 24 * 60 * 60 * 1000

CompletedLimit == 50

FailedLimit == 20

\* Object.entries(queues)
QueueEntries ==
  << [name |-> "emailQueue", queue |-> EMAIL],
     [name |-> "userProcessingQueue", queue |-> USER_PROCESSING],
     [name |-> "notificationsQueue", queue |-> NOTIFICATIONS],
     [name |-> "dataExportQueue", queue |-> DATA_EXPORT] >>

\* the jobs of the set that are old enough to be cleaned
Cleanable(q, type, grace) ==
  {i \in JobsOf(q, type) : jobs[i].finishedOn <= now - grace}

\* those of them that finished before job i
FinishedBefore(S, i) ==
  {k \in S : \/ jobs[k].finishedOn < jobs[i].finishedOn
             \/ jobs[k].finishedOn = jobs[i].finishedOn /\ k < i}

\* a clean that takes the whole range and ignores `limit`
QueueCleanUnlimited(q, grace, limit, type) ==
  LET S == Cleanable(q, type, grace)
  IN S

\* a clean that reads the set without the range's upper end
QueueCleanAnyAge(q, grace, limit, type) ==
  LET S == JobsOf(q, type)
  IN {i \in S : Cardinality(FinishedBefore(S, i)) < limit}

\* the ids Queue.clean removes: the `limit` oldest of the cleanable ones
QueueClean(q, grace, limit, type) ==
  LET S == Cleanable(q, type, grace)
  IN {i \in S : Cardinality(FinishedBefore(S, i)) < limit}

\* the removed jobs leave the broker
Removed(js, gone) ==
  [i \in DOMAIN js |->
     IF i \in gone THEN [js[i] EXCEPT !.status = "removed"] ELSE js[i]]

\* the call: results = []
cleanupQueues ==
  /\ cleanup.pc # "running"
  /\ cleanup' = [pc |-> "running", at |-> 1, results |-> <<>>,
                  runs |-> cleanup.runs + 1, errorLogs |-> cleanup.errorLogs]
  /\ UNCHANGED <<workers, conn, shutdown>>
  /\ UNCHANGED jobVars
  /\ UNCHANGED <<pubsubVars, auxVars>>

\* one turn of the loop; after the last one the results are logged and returned,
\* and a rejected clean ends the call in the catch: log and rethrow
cleanupNextQueue ==
  /\ cleanup.pc = "running"
  /\ LET entry == QueueEntries[cleanup.at]
         cleanedCompleted ==
           QueueClean(entry.queue, CompletedGrace, CompletedLimit, "completed")
         cleanedFailed ==
           QueueClean(entry.queue, FailedGrace, FailedLimit, "failed")
     IN IF redisUp
        THEN /\ jobs' = Removed(jobs, cleanedCompleted \cup cleanedFailed)
             /\ cleanup' =
                  [cleanup EXCEPT
                     !.results = Append(@, [queue |-> entry.name,
                                            cleanedCompleted |-> cleanedCompleted,
                                            cleanedFailed |-> cleanedFailed]),
                     !.at = @ + 1,
                     !.pc = IF cleanup.at = Len(QueueEntries)
                            THEN "returned" ELSE "running"]
        ELSE /\ jobs' = jobs
             /\ cleanup' = [cleanup EXCEPT !.pc = "threw", !.results = <<>>,
                                            !.errorLogs = @ + 1]
  /\ UNCHANGED <<workers, conn, shutdown>>
  /\ UNCHANGED <<wait, limiter, startLog, throws, now, redisUp, lastCall>>
  /\ UNCHANGED <<pubsubVars, auxVars>>

(***************************************************************************)
(* Shutdown: the SIGINT handler of server.ts, stopJobWorkers and           *)
(* closeJobQueues.  The handler awaits server.stop(), closePubSub() inside *)
(* a try/catch, then stopJobWorkers() and closeJobQueues() inside one      *)
(* try/catch, and exits.  Worker.close() stops the worker from fetching    *)
(* and resolves once the jobs it is processing have finished.              *)
(***************************************************************************)
SIGINT ==
  /\ shutdown.pc = "idle"
  /\ shutdown' = [shutdown EXCEPT !.pc = "server.stop"]
  /\ UNCHANGED <<cleanup, workers, conn>>
  /\ UNCHANGED jobVars
  /\ UNCHANGED <<pubsubVars, auxVars>>

serverStop ==
  /\ shutdown.pc = "server.stop"
  /\ shutdown' = [shutdown EXCEPT !.pc = "closePubSub"]
  /\ UNCHANGED <<cleanup, workers, conn>>
  /\ UNCHANGED jobVars
  /\ UNCHANGED <<pubsubVars, auxVars>>

\* a handler that awaits closePubSub outside a try block: what closePubSub
\* throws ends the handler
closePubSubUncaught ==
  /\ shutdown.pc = "closePubSub"
  /\ shutdown' = IF pubsubUp
                 THEN [shutdown EXCEPT !.pc = "stopJobWorkers",
                                       !.closePubSub = "returned"]
                 ELSE [shutdown EXCEPT !.pc = "rejected",
                                       !.closePubSub = "threw",
                                       !.errorLogs = @ + 1]
  /\ UNCHANGED <<cleanup, workers, conn>>
  /\ UNCHANGED jobVars
  /\ UNCHANGED <<pubsubVars, auxVars>>

\* closePubSub logs and rethrows; the handler logs what it catches and goes on
closePubSub ==
  /\ shutdown.pc = "closePubSub"
  /\ shutdown' = IF pubsubUp
                 THEN [shutdown EXCEPT !.pc = "stopJobWorkers",
                                       !.closePubSub = "returned"]
                 ELSE [shutdown EXCEPT !.pc = "stopJobWorkers",
                                       !.closePubSub = "threw",
                                       !.errorLogs = @ + 2]
  /\ UNCHANGED <<cleanup, workers, conn>>
  /\ UNCHANGED jobVars
  /\ UNCHANGED <<pubsubVars, auxVars>>

\* stopJobWorkers calls close() on every worker and awaits them all; inProcess
\* and calledAt note the jobs that are in process at the call and its time
stopJobWorkers ==
  /\ shutdown.pc = "stopJobWorkers"
  /\ workers' = [q \in JOB_QUEUES |->
                   IF workers[q] = "running" THEN "closing" ELSE workers[q]]
  /\ shutdown' = [shutdown EXCEPT !.pc = "await workers",
                                  !.stopJobWorkers = "called",
                                  !.inProcess = {i \in Ids :
                                                  jobs[i].status = "active"},
                                  !.calledAt = now]
  /\ UNCHANGED <<cleanup, conn>>
  /\ UNCHANGED jobVars
  /\ UNCHANGED <<pubsubVars, auxVars>>

\* a close(true): the worker is closed over the jobs it is processing
WorkerCloseForced(q) ==
  /\ workers[q] = "closing"
  /\ workers' = [workers EXCEPT ![q] = "closed"]
  /\ UNCHANGED <<cleanup, conn, shutdown>>
  /\ UNCHANGED jobVars
  /\ UNCHANGED <<pubsubVars, auxVars>>

\* close() resolves: the worker has no job in process any more
WorkerClose(q) ==
  /\ workers[q] = "closing"
  /\ JobsOf(q, "active") = {}
  /\ workers' = [workers EXCEPT ![q] = "closed"]
  /\ UNCHANGED <<cleanup, conn, shutdown>>
  /\ UNCHANGED jobVars
  /\ UNCHANGED <<pubsubVars, auxVars>>

\* every close() has resolved: stopJobWorkers returns and the handler calls
\* closeJobQueues, which closes the queues and the queue events
closeJobQueues ==
  /\ shutdown.pc = "await workers"
  /\ \A q \in JOB_QUEUES : workers[q] = "closed"
  /\ shutdown' = [shutdown EXCEPT !.pc = "redis.quit",
                                  !.stopJobWorkers = "returned",
                                  !.closeJobQueues = "called"]
  /\ UNCHANGED <<cleanup, workers, conn>>
  /\ UNCHANGED jobVars
  /\ UNCHANGED <<pubsubVars, auxVars>>

\* a close() rejects while Redis is away: stopJobWorkers logs and rethrows, the
\* handler logs what it catches and closeJobQueues is not called
stopJobWorkersThrows ==
  /\ shutdown.pc = "await workers"
  /\ ~redisUp
  /\ shutdown' = [shutdown EXCEPT !.pc = "exit",
                                  !.stopJobWorkers = "threw",
                                  !.errorLogs = @ + 2]
  /\ UNCHANGED <<cleanup, workers, conn>>
  /\ UNCHANGED jobVars
  /\ UNCHANGED <<pubsubVars, auxVars>>

\* redis.quit(): the connection is released, or the quit rejects, closeJobQueues
\* logs and rethrows and the handler logs what it catches
redisQuit ==
  /\ shutdown.pc = "redis.quit"
  /\ IF redisUp
     THEN /\ conn' = "end"
          /\ shutdown' = [shutdown EXCEPT !.pc = "exit",
                                          !.closeJobQueues = "returned"]
     ELSE /\ conn' = conn
          /\ shutdown' = [shutdown EXCEPT !.pc = "exit",
                                          !.closeJobQueues = "threw",
                                          !.errorLogs = @ + 2]
  /\ UNCHANGED <<cleanup, workers>>
  /\ UNCHANGED jobVars
  /\ UNCHANGED <<pubsubVars, auxVars>>

\* process.exit(0)
processExit ==
  /\ shutdown.pc = "exit"
  /\ shutdown' = [shutdown EXCEPT !.pc = "exited"]
  /\ UNCHANGED <<cleanup, workers, conn>>
  /\ UNCHANGED jobVars
  /\ UNCHANGED <<pubsubVars, auxVars>>

(***************************************************************************)
(* bootstrap of server.ts: initializePubSub() inside a try/catch, then     *)
(* initializeJobQueues() and startJobWorkers() inside one try/catch whose  *)
(* catch logs a warning, then the server is created and started.  The      *)
(* queues and the workers are built when their module is loaded; the       *)
(* workers fetch from then on, and startJobWorkers attaches their          *)
(* listeners.                                                              *)
(***************************************************************************)
\* initializePubSub rejects without Redis: it logs and rethrows, bootstrap warns
initializePubSub ==
  /\ boot.pc = "initializePubSub"
  /\ boot' = IF pubsubUp
             THEN [boot EXCEPT !.pc = "initializeJobQueues",
                               !.initializePubSub = "returned"]
             ELSE [boot EXCEPT !.pc = "initializeJobQueues",
                               !.initializePubSub = "threw",
                               !.errorLogs = @ + 1, !.warnLogs = @ + 1]
  /\ UNCHANGED <<jobVars, pubsubVars, opsVars, stalled, gw, dash, mut, stats>>

\* redis.ping() and the queue-event listeners; a rejected ping is logged and
\* rethrown, and bootstrap's catch warns and goes on past startJobWorkers
initializeJobQueues ==
  /\ boot.pc = "initializeJobQueues"
  /\ boot' = IF redisUp
             THEN [boot EXCEPT !.pc = "startJobWorkers",
                               !.initializeJobQueues = "returned"]
             ELSE [boot EXCEPT !.pc = "startServer",
                               !.initializeJobQueues = "threw",
                               !.errorLogs = @ + 1, !.warnLogs = @ + 1]
  /\ UNCHANGED <<jobVars, pubsubVars, opsVars, stalled, gw, dash, mut, stats>>

\* the listeners of every worker are attached
startJobWorkers ==
  /\ boot.pc = "startJobWorkers"
  /\ boot' = [boot EXCEPT !.pc = "startServer", !.startJobWorkers = "returned",
                          !.listeners = TRUE]
  /\ UNCHANGED <<jobVars, pubsubVars, opsVars, stalled, gw, dash, mut, stats>>

\* the schema is loaded, the server is created and listens
startServer ==
  /\ boot.pc = "startServer"
  /\ boot' = [boot EXCEPT !.pc = "serving"]
  /\ UNCHANGED <<jobVars, pubsubVars, opsVars, stalled, gw, dash, mut, stats>>

(***************************************************************************)
(* Real-time events: SUBSCRIPTION_TOPICS, UserEventPublisher and the       *)
(* subscription resolvers.  pubSub.publish hands the payload to the        *)
(* iterator of every subscription open on the topic, or rejects when the   *)
(* PubSub connection is down; an iterator yields its payloads in order,    *)
(* one at a time, through the field's filter.                              *)
(***************************************************************************)
USER_CREATED == "USER_CREATED"
USER_UPDATED == "USER_UPDATED"
USER_DELETED == "USER_DELETED"
USER_ONLINE == "USER_ONLINE"

SUBSCRIPTION_TOPICS == {USER_CREATED, USER_UPDATED, USER_DELETED, USER_ONLINE}

SubscriptionFields == {"userCreated", "userUpdated", "userDeleted", "userOnline"}

\* the topic of the asyncIterator each field's subscribe returns
TopicOf ==
  [f \in SubscriptionFields |->
     CASE f = "userCreated" -> USER_CREATED
       [] f = "userUpdated" -> USER_UPDATED
       [] f = "userDeleted" -> USER_DELETED
       [] f = "userOnline" -> USER_ONLINE]

\* JavaScript values: a string, a number (written in decimal), or undefined
Str(v) == [t |-> "string", v |-> v]

Num(v) == [t |-> "number", v |-> v]

UndefinedValue == [t |-> "undefined", v |-> ""]

NullValue == [t |-> "null", v |-> ""]

\* if (x): undefined, null, the empty string and the number 0 are falsy
Truthy(x) ==
  \/ x.t = "string" /\ x.v # ""
  \/ x.t = "number" /\ x.v # "0"

\* a === b: same type and same value
StrictEquals(a, b) == a.t = b.t /\ a.v = b.v

\* a filter that lets every payload through
userUpdatedFilterOpen(payload, variables) == TRUE

\* withFilter's second argument of userUpdated
userUpdatedFilter(payload, variables) ==
  IF Truthy(variables.userId)
  THEN StrictEquals(payload.body.user.id, variables.userId)
  ELSE TRUE

\* a filter that compares whatever userId it is given
userOnlineFilterStrict(payload, variables) ==
  StrictEquals(payload.body.user.id, variables.userId)

\* withFilter's second argument of userOnline
userOnlineFilter(payload, variables) ==
  IF Truthy(variables.userId)
  THEN StrictEquals(payload.body.user.id, variables.userId)
  ELSE TRUE

\* userCreated and userDeleted subscribe without withFilter
Filter(field, payload, variables) ==
  CASE field = "userUpdated" -> userUpdatedFilter(payload, variables)
    [] field = "userOnline" -> userOnlineFilter(payload, variables)
    [] OTHER -> TRUE

NoPublish ==
  [op |-> "none", outcome |-> "none", failed |-> FALSE,
   errorLogs |-> 0, infoLogs |-> 0]

\* a broker that replays the topic's earlier payloads to a new subscription
SubscribeReplaying(field, variables) ==
  /\ subs' = Append(subs, [field |-> field, variables |-> variables,
                           open |-> TRUE, inbox |-> sent[TopicOf[field]],
                           yielded |-> <<>>, skipped |-> 0,
                           since |-> Len(sent[TopicOf[field]]), until |-> 0])
  /\ UNCHANGED <<pubsubUp, published, sent, lastPublish>>
  /\ UNCHANGED <<jobVars, opsVars, auxVars>>

\* subscribe: a new iterator on the field's topic
Subscribe(field, variables) ==
  /\ subs' = Append(subs, [field |-> field, variables |-> variables,
                           open |-> TRUE, inbox |-> <<>>,
                           yielded |-> <<>>, skipped |-> 0,
                           since |-> Len(sent[TopicOf[field]]), until |-> 0])
  /\ UNCHANGED <<pubsubUp, published, sent, lastPublish>>
  /\ UNCHANGED <<jobVars, opsVars, auxVars>>

\* a publisher whose catch logs the error and rethrows it
PubSubPublishRethrowing(op, topic, payload) ==
  /\ published' = published + 1
  /\ IF pubsubUp
     THEN /\ subs' = [i \in DOMAIN subs |->
                        IF subs[i].open /\ TopicOf[subs[i].field] = topic
                        THEN [subs[i] EXCEPT !.inbox = Append(@, payload)]
                        ELSE subs[i]]
          /\ sent' = [sent EXCEPT ![topic] = Append(@, payload)]
          /\ lastPublish' = [op |-> op, outcome |-> "resolved", failed |-> FALSE,
                             errorLogs |-> 0, infoLogs |-> 1]
     ELSE /\ subs' = subs
          /\ sent' = sent
          /\ lastPublish' = [op |-> op, outcome |-> "threw", failed |-> TRUE,
                             errorLogs |-> 1, infoLogs |-> 0]

\* a broker that hands each payload to one subscription of the topic only
PubSubPublishToOne(op, topic, payload) ==
  /\ published' = published + 1
  /\ IF pubsubUp
     THEN /\ subs' = [i \in DOMAIN subs |->
                        IF /\ subs[i].open /\ TopicOf[subs[i].field] = topic
                           /\ \A k \in 1..(i - 1) :
                                ~(subs[k].open /\ TopicOf[subs[k].field] = topic)
                        THEN [subs[i] EXCEPT !.inbox = Append(@, payload)]
                        ELSE subs[i]]
          /\ sent' = [sent EXCEPT ![topic] = Append(@, payload)]
          /\ lastPublish' = [op |-> op, outcome |-> "resolved", failed |-> FALSE,
                             errorLogs |-> 0, infoLogs |-> 1]
     ELSE /\ subs' = subs
          /\ sent' = sent
          /\ lastPublish' = [op |-> op, outcome |-> "resolved", failed |-> TRUE,
                             errorLogs |-> 1, infoLogs |-> 0]

\* try { await pubSub.publish(topic, payload); logger.info(...) }
\* catch (error) { logger.error(...) }
PubSubPublish(op, topic, payload) ==
  /\ published' = published + 1
  /\ IF pubsubUp
     THEN /\ subs' = [i \in DOMAIN subs |->
                        IF subs[i].open /\ TopicOf[subs[i].field] = topic
                        THEN [subs[i] EXCEPT !.inbox = Append(@, payload)]
                        ELSE subs[i]]
          /\ sent' = [sent EXCEPT ![topic] = Append(@, payload)]
          /\ lastPublish' = [op |-> op, outcome |-> "resolved", failed |-> FALSE,
                             errorLogs |-> 0, infoLogs |-> 1]
     ELSE /\ subs' = subs
          /\ sent' = sent
          /\ lastPublish' = [op |-> op, outcome |-> "resolved", failed |-> TRUE,
                             errorLogs |-> 1, infoLogs |-> 0]

publishUserCreated(user) ==
  /\ PubSubPublish("publishUserCreated", USER_CREATED,
                   [key |-> "userCreated",
                    body |-> [user |-> user, timestamp |-> now]])
  /\ UNCHANGED pubsubUp
  /\ UNCHANGED <<jobVars, opsVars, auxVars>>

publishUserUpdated(user, previousValues) ==
  /\ PubSubPublish("publishUserUpdated", USER_UPDATED,
                   [key |-> "userUpdated",
                    body |-> [user |-> user, previousValues |-> previousValues,
                              timestamp |-> now]])
  /\ UNCHANGED pubsubUp
  /\ UNCHANGED <<jobVars, opsVars, auxVars>>

publishUserDeleted(user) ==
  /\ PubSubPublish("publishUserDeleted", USER_DELETED,
                   [key |-> "userDeleted",
                    body |-> [id |-> user.id, email |-> user.email,
                              timestamp |-> now]])
  /\ UNCHANGED pubsubUp
  /\ UNCHANGED <<jobVars, opsVars, auxVars>>

\* a publishUserOnline copied from publishUserUpdated with its topic left in
publishUserOnlineOnUpdated(user, isOnline) ==
  /\ PubSubPublish("publishUserOnline", USER_UPDATED,
                   [key |-> "userOnline",
                    body |-> [user |-> user, isOnline |-> isOnline,
                              timestamp |-> now]])
  /\ UNCHANGED pubsubUp
  /\ UNCHANGED <<jobVars, opsVars, auxVars>>

publishUserOnline(user, isOnline) ==
  /\ PubSubPublish("publishUserOnline", USER_ONLINE,
                   [key |-> "userOnline",
                    body |-> [user |-> user, isOnline |-> isOnline,
                              timestamp |-> now]])
  /\ UNCHANGED pubsubUp
  /\ UNCHANGED <<jobVars, opsVars, auxVars>>

\* User.toPublic(): the id is the number the repository stores
toPublic(user) == [id |-> user.id, email |-> user.email]

\* Mutation.updateUserProfile of an authenticated user: the updated user's
\* public fields are published with the previous ones
updateUserProfile(currentUser, previousValues) ==
  /\ Truthy(currentUser.id)
  /\ publishUserUpdated(toPublic([id |-> currentUser.id,
                                   email |-> currentUser.id.v]),
                        previousValues)

\* an iterator that takes the newest payload it holds
DeliverNewestFirst(i) ==
  /\ i \in DOMAIN subs
  /\ subs[i].open
  /\ subs[i].inbox # <<>>
  /\ LET payload == subs[i].inbox[Len(subs[i].inbox)]
         rest == SubSeq(subs[i].inbox, 1, Len(subs[i].inbox) - 1)
     IN subs' = IF Filter(subs[i].field, payload, subs[i].variables)
                THEN [subs EXCEPT ![i].inbox = rest,
                                  ![i].yielded = Append(@, payload)]
                ELSE [subs EXCEPT ![i].inbox = rest,
                                  ![i].skipped = @ + 1]
  /\ UNCHANGED <<pubsubUp, published, sent, lastPublish>>
  /\ UNCHANGED <<jobVars, opsVars, auxVars>>

\* a gateway that keeps one filter per topic: that of its first subscription
DeliverPerTopic(i) ==
  /\ i \in DOMAIN subs
  /\ subs[i].open
  /\ subs[i].inbox # <<>>
  /\ LET payload == Head(subs[i].inbox)
     IN subs' = IF Filter(subs[i].field, payload, subs[1].variables)
                THEN [subs EXCEPT ![i].inbox = Tail(@),
                                  ![i].yielded = Append(@, payload)]
                ELSE [subs EXCEPT ![i].inbox = Tail(@),
                                  ![i].skipped = @ + 1]
  /\ UNCHANGED <<pubsubUp, published, sent, lastPublish>>
  /\ UNCHANGED <<jobVars, opsVars, auxVars>>

\* the iterator of subscription i takes its next payload: withFilter yields
\* it when the filter accepts it and goes on to the next one otherwise
Deliver(i) ==
  /\ i \in DOMAIN subs
  /\ subs[i].open
  /\ subs[i].inbox # <<>>
  /\ LET payload == Head(subs[i].inbox)
     IN subs' = IF Filter(subs[i].field, payload, subs[i].variables)
                THEN [subs EXCEPT ![i].inbox = Tail(@),
                                  ![i].yielded = Append(@, payload)]
                ELSE [subs EXCEPT ![i].inbox = Tail(@),
                                  ![i].skipped = @ + 1]
  /\ UNCHANGED <<pubsubUp, published, sent, lastPublish>>
  /\ UNCHANGED <<jobVars, opsVars, auxVars>>

\* the client completes the subscription: the iterator returns
Unsubscribe(i) ==
  /\ i \in DOMAIN subs
  /\ subs[i].open
  /\ subs' = [subs EXCEPT ![i].open = FALSE, ![i].inbox = <<>>,
                          ![i].until = Len(sent[TopicOf[subs[i].field]])]
  /\ UNCHANGED <<pubsubUp, published, sent, lastPublish>>
  /\ UNCHANGED <<jobVars, opsVars, auxVars>>

PubSubDown ==
  /\ pubsubUp
  /\ pubsubUp' = FALSE
  /\ UNCHANGED <<subs, published, sent, lastPublish>>
  /\ UNCHANGED <<jobVars, opsVars, auxVars>>

PubSubBack ==
  /\ ~pubsubUp
  /\ pubsubUp' = TRUE
  /\ UNCHANGED <<subs, published, sent, lastPublish>>
  /\ UNCHANGED <<jobVars, opsVars, auxVars>>

(***************************************************************************)
(* The WebSocket gateway: createWebSocketServer hands the handlers of      *)
(* subscriptionHandlers to graphql-ws's useServer.  graphql-ws calls       *)
(* onConnect(ctx) when a connection_init message arrives, and onSubscribe  *)
(* when a subscribe message arrives; a value onSubscribe returns is taken  *)
(* as the execution arguments of the operation in place of the ones the    *)
(* server builds from the schema and the message.  An error thrown while   *)
(* a message is handled closes the socket with code 4500.                  *)
(***************************************************************************)
MaxConns == 2

Conns == 1..MaxConns

\* obj?.key of a JS object: undefined when the object has no such property
Prop(obj, key) == IF key \in DOMAIN obj THEN obj[key] ELSE UndefinedValue

\* a || b
OrElseValue(a, b) == IF Truthy(a) THEN a ELSE b

NoAck == [isAuthenticated |-> FALSE, token |-> UndefinedValue]

NoConn ==
  [state |-> "none",
   connectionParams |-> [Authorization |-> UndefinedValue,
                         authorization |-> UndefinedValue],
   acknowledged |-> FALSE, onConnectCalls |-> 0, ack |-> NoAck,
   closeCode |-> 0, ops |-> <<>>, infoLogs |-> 0]

NoGateway == [server |-> "listening", conns |-> [c \in Conns |-> NoConn]]

\* the Context object graphql-ws keeps for a connection
Context(c) ==
  [connectionInitReceived |-> TRUE,
   acknowledged |-> gw.conns[c].acknowledged,
   connectionParams |-> gw.conns[c].connectionParams,
   subscriptions |-> gw.conns[c].ops]

\* subscriptionHandlers.onConnect
onConnect(connectionParams) ==
  LET token == OrElseValue(Prop(connectionParams, "Authorization"),
                           Prop(connectionParams, "authorization"))
  IN IF Truthy(token)
     THEN [isAuthenticated |-> TRUE, token |-> token]
     ELSE [isAuthenticated |-> FALSE, token |-> UndefinedValue]

\* subscriptionHandlers.onOperationStart: logs and returns params
onOperationStart(message, params, webSocket) == params

\* subscriptionHandlers.onOperationComplete: logs and returns nothing
onOperationComplete(webSocket, opId) == UndefinedValue

\* the onSubscribe handed to useServer: it reads msg.payload.operationName,
\* which throws when msg has no payload, and returns what onOperationStart
\* returns
onSubscribe(ctx, msg) ==
  IF "payload" \in DOMAIN msg
  THEN [threw |-> FALSE, value |-> onOperationStart(msg, msg.payload, ctx)]
  ELSE [threw |-> TRUE, value |-> UndefinedValue]

\* a gateway with no onSubscribe
NoHook == [threw |-> FALSE, value |-> UndefinedValue]

\* the execution arguments graphql-ws uses: the value onSubscribe returned,
\* or else the schema with the parsed query of the message
ExecutionArgs(payload, hook) ==
  IF hook.value # UndefinedValue
  THEN hook.value
  ELSE [schema |-> "schema", document |-> payload.query,
        operationName |-> payload.operationName,
        variableValues |-> payload.variables]

\* getOperationAST(execArgs.document, ...) throws on arguments without a
\* document; the hook's own error ends the message the same way
OperationOutcome(payload, hook) ==
  IF hook.threw \/ "document" \notin DOMAIN ExecutionArgs(payload, hook)
  THEN "internal error"
  ELSE "subscribed"

\* what the first argument of onSubscribe is: the subscribe message with
\* 'graphql-ws/lib/use/ws', the id of the operation with 'graphql-ws/use/ws'
UseServerModules == {"graphql-ws/lib/use/ws", "graphql-ws/use/ws"}

SubscribeMessage(id, field, variables) ==
  [id |-> id, type |-> "subscribe",
   payload |-> [operationName |-> field, query |-> field,
                variables |-> variables]]

NewSubscription(field, variables) ==
  [field |-> field, variables |-> variables, open |-> TRUE, inbox |-> <<>>,
   yielded |-> <<>>, skipped |-> 0,
   since |-> Len(sent[TopicOf[field]]), until |-> 0]

\* connection_init: graphql-ws stores the parameters in the context and
\* calls onConnect with the context; only a return value of false closes
\* the socket, an object is sent back with the acknowledgement
ConnectionInit(c, connectionParams) ==
  /\ gw.server = "listening"
  /\ gw.conns[c].state = "none"
  /\ LET ctx == [Context(c) EXCEPT !.connectionParams = connectionParams]
     IN gw' = [gw EXCEPT !["conns"][c] =
                 [@ EXCEPT !.state = "open",
                           !.connectionParams = connectionParams,
                           !.acknowledged = TRUE,
                           !.onConnectCalls = @ + 1,
                           !.infoLogs = @ + 1,
                           !.ack = onConnect(ctx)]]
  /\ UNCHANGED <<jobVars, pubsubVars, opsVars, boot, stalled, dash, mut, stats>>

\* subscribe on an acknowledged connection
GatewaySubscribe(c, field, variables, module) ==
  /\ gw.conns[c].state = "open"
  /\ gw.conns[c].acknowledged
  /\ LET id == Len(gw.conns[c].ops) + 1
         message == SubscribeMessage(id, field, variables)
         msg == IF module = "graphql-ws/lib/use/ws" THEN message ELSE Num(id)
         hook == onSubscribe(Context(c), msg)
         outcome == OperationOutcome(message.payload, hook)
         op == [id |-> id, field |-> field, outcome |-> outcome,
                unhooked |-> OperationOutcome(message.payload, NoHook)]
     IN IF outcome = "subscribed"
        THEN /\ subs' = Append(subs, NewSubscription(field, variables))
             /\ gw' = [gw EXCEPT !["conns"][c].ops = Append(@, op),
                                 !["conns"][c].infoLogs = @ + 1]
        ELSE /\ subs' = subs
             /\ gw' = [gw EXCEPT !["conns"][c] =
                         [@ EXCEPT !.ops = Append(@, op),
                                   !.state = "closed",
                                   !.closeCode = 4500,
                                   !.infoLogs = @ + 1]]
  /\ UNCHANGED <<pubsubUp, published, sent, lastPublish>>
  /\ UNCHANGED <<jobVars, opsVars, boot, stalled, dash, mut, stats>>

\* the client closes its socket: onDisconnect logs
Disconnect(c) ==
  /\ gw.conns[c].state = "open"
  /\ gw' = [gw EXCEPT !["conns"][c].state = "closed",
                      !["conns"][c].closeCode = 1000,
                      !["conns"][c].infoLogs = @ + 1]
  /\ UNCHANGED <<jobVars, pubsubVars, opsVars, boot, stalled, dash, mut, stats>>

\* closeWebSocketServer: cleanup(), terminate every client socket, close
closeWebSocketServer ==
  /\ gw.server = "listening"
  /\ gw' = [server |-> "closed",
            conns |-> [c \in Conns |->
                         IF gw.conns[c].state = "open"
                         THEN [gw.conns[c] EXCEPT !.state = "closed",
                                                  !.closeCode = 1001,
                                                  !.infoLogs = @ + 1]
                         ELSE gw.conns[c]]]
  /\ UNCHANGED <<jobVars, pubsubVars, opsVars, boot, stalled, dash, mut, stats>>

(***************************************************************************)
(* The dashboard gate: dashboardAuthMiddleware in front of the Bull Board  *)
(* router at /admin/queues.  The environment of the process is set when it *)
(* starts; a variable that is not set reads as undefined.                   *)
(***************************************************************************)
MaxRequests == 2

\* `${x}` in a template literal
ToText(x) ==
  IF x.t = "undefined" THEN "undefined" ELSE IF x.t = "null" THEN "null" ELSE x.v

\* if (!x) on a string or undefined
Falsy(x) == ~Truthy(x)

NoDashboard ==
  [NODE_ENV |-> UndefinedValue, DASHBOARD_TOKEN |-> UndefinedValue,
   responses |-> <<>>]

\* dashboardAuthMiddleware(): the handler it returns, applied to a request
\* with req.headers.authorization = authHeader
dashboardAuthMiddleware(authHeader) ==
  IF dash.NODE_ENV = Str("production")
     /\ (\/ Falsy(authHeader)
         \/ authHeader.v # "Bearer " \o ToText(dash.DASHBOARD_TOKEN))
  THEN [status |-> 401, next |-> FALSE]
  ELSE [status |-> 0, next |-> TRUE]

\* a request to /admin/queues
dashboardRequest(authHeader) ==
  /\ Len(dash.responses) < MaxRequests
  /\ LET res == dashboardAuthMiddleware(authHeader)
     IN dash' = [dash EXCEPT !.responses =
                   Append(@, [authorization |-> authHeader,
                              status |-> res.status, next |-> res.next])]
  /\ UNCHANGED <<jobVars, pubsubVars, opsVars, boot, stalled, gw, mut, stats>>

(***************************************************************************)
(* JobService.getQueueStats: one turn of its loop reads the five job lists *)
(* of a queue.  The connection is built with enableOfflineQueue: false, so *)
(* a read made while Redis is out of reach rejects.                        *)
(***************************************************************************)
MaxStatsCalls == 2

NoStats == [pc |-> "idle", at |-> 1, stats |-> <<>>, returned |-> <<>>,
            calls |-> 0, errorLogs |-> 0]

\* queue.getWaiting() ... queue.getDelayed(), and the length of each list
QueueCounts(q) ==
  [waiting |-> Cardinality(JobsOf(q, "waiting")),
   active |-> Cardinality(JobsOf(q, "active")),
   completed |-> Cardinality(JobsOf(q, "completed")),
   failed |-> Cardinality(JobsOf(q, "failed")),
   delayed |-> Cardinality(JobsOf(q, "delayed"))]

\* the call: stats = {}
getQueueStats ==
  /\ stats.pc # "running"
  /\ stats.calls < MaxStatsCalls
  /\ stats' = [pc |-> "running", at |-> 1, stats |-> <<>>, returned |-> <<>>,
               calls |-> stats.calls + 1, errorLogs |-> stats.errorLogs]
  /\ UNCHANGED <<jobVars, pubsubVars, opsVars, boot, stalled, gw, dash, mut>>

\* a loop whose catch logs the error and throws it again
getQueueStatsNextQueueRethrowing ==
  /\ stats.pc = "running"
  /\ LET entry == QueueEntries[stats.at]
         collected == Append(stats.stats, [name |-> entry.name,
                                           counts |-> QueueCounts(entry.queue)])
     IN stats' =
          IF redisUp
          THEN [stats EXCEPT
                  !.stats = collected,
                  !.at = @ + 1,
                  !.pc = IF stats.at = Len(QueueEntries) THEN "returned" ELSE "running",
                  !.returned = IF stats.at = Len(QueueEntries) THEN collected ELSE <<>>]
          ELSE [stats EXCEPT !.pc = "threw", !.returned = <<>>,
                             !.errorLogs = @ + 1]
  /\ UNCHANGED <<jobVars, pubsubVars, opsVars, boot, stalled, gw, dash, mut>>

\* one turn of the loop; after the last one stats is returned, and a rejected
\* read ends the call in the catch: log and return {}
getQueueStatsNextQueue ==
  /\ stats.pc = "running"
  /\ LET entry == QueueEntries[stats.at]
         collected == Append(stats.stats, [name |-> entry.name,
                                           counts |-> QueueCounts(entry.queue)])
     IN stats' =
          IF redisUp
          THEN [stats EXCEPT
                  !.stats = collected,
                  !.at = @ + 1,
                  !.pc = IF stats.at = Len(QueueEntries) THEN "returned" ELSE "running",
                  !.returned = IF stats.at = Len(QueueEntries) THEN collected ELSE <<>>]
          ELSE [stats EXCEPT !.pc = "returned", !.returned = <<>>,
                             !.errorLogs = @ + 1]
  /\ UNCHANGED <<jobVars, pubsubVars, opsVars, boot, stalled, gw, dash, mut>>

(***************************************************************************)
(* The user mutations signUp, updateUserProfile and deleteUser, one await  *)
(* at a time: the persistence call, the publish, the enqueues.  An error   *)
(* thrown inside the try block reaches handleResolverError, which throws   *)
(* a GraphQLError: the mutation ends with an error.                        *)
(***************************************************************************)
MaxMutations == 2

NoMutation ==
  [op |-> "none", pc |-> "idle", persistence |-> "none",
   user |-> [id |-> UndefinedValue, email |-> ""],
   calls |-> <<>>, outcome |-> "none", count |-> 0]

\* a resolver that goes on to publish whatever the persistence call did
BeginAnyway(op, user, persistence) ==
  /\ mut.pc = "idle"
  /\ mut.count < MaxMutations
  /\ mut' = [op |-> op, pc |-> "publish", persistence |-> persistence,
             user |-> user, calls |-> <<>>, outcome |-> "none",
             count |-> mut.count + 1]
  /\ UNCHANGED <<jobVars, pubsubVars, opsVars, boot, stalled, gw, dash, stats>>

\* the resolver up to the return of its persistence call: authService.signUp,
\* userService.update, or userService.findById and userService.delete
Begin(op, user, persistence) ==
  /\ mut.pc = "idle"
  /\ mut.count < MaxMutations
  /\ mut' = [op |-> op,
             pc |-> IF persistence = "committed" THEN "publish" ELSE "idle",
             persistence |-> persistence, user |-> user, calls |-> <<>>,
             outcome |-> IF persistence = "committed" THEN "none" ELSE "error",
             count |-> mut.count + 1]
  /\ UNCHANGED <<jobVars, pubsubVars, opsVars, boot, stalled, gw, dash, stats>>

signUp(user, persistence) ==
  persistence \in {"committed", "failed"} /\ Begin("signUp", user, persistence)

updateUserProfileUpdate(user, persistence) ==
  /\ persistence \in {"committed", "failed"}
  /\ Begin("updateUserProfile", user, persistence)

\* "notFound": findById returned no user and the resolver threw before delete
deleteUser(user, persistence) ==
  /\ persistence \in {"committed", "failed", "notFound"}
  /\ Begin("deleteUser", user, persistence)

\* where the resolver goes after a call that did not throw
AfterCall(op, call) ==
  CASE op = "signUp" /\ call = "publish" -> "addUserJob"
    [] op = "signUp" /\ call = "addUserJob" -> "addEmailJob"
    [] op = "deleteUser" /\ call = "publish" -> "addUserJob"
    [] OTHER -> "idle"

Called(call, failed) ==
  [mut EXCEPT !.calls = Append(@, [call |-> call, failed |-> failed])]

\* a resolver that lets a failed publish end the mutation with an error
MutationPublishFailing ==
  /\ mut.pc = "publish"
  /\ CASE mut.op = "signUp" ->
            PubSubPublish("publishUserCreated", USER_CREATED,
                          [key |-> "userCreated",
                           body |-> [user |-> mut.user, timestamp |-> now]])
       [] mut.op = "updateUserProfile" ->
            PubSubPublish("publishUserUpdated", USER_UPDATED,
                          [key |-> "userUpdated",
                           body |-> [user |-> mut.user,
                                     previousValues |-> [email |-> "old"],
                                     timestamp |-> now]])
       [] mut.op = "deleteUser" ->
            PubSubPublish("publishUserDeleted", USER_DELETED,
                          [key |-> "userDeleted",
                           body |-> [id |-> mut.user.id, email |-> mut.user.email,
                                     timestamp |-> now]])
  /\ mut' = IF pubsubUp
            THEN [Called("publish", FALSE) EXCEPT
                    !.pc = AfterCall(mut.op, "publish"),
                    !.outcome = IF AfterCall(mut.op, "publish") = "idle"
                                THEN "returned" ELSE "none"]
            ELSE [Called("publish", TRUE) EXCEPT
                    !.pc = "idle", !.outcome = "error"]
  /\ UNCHANGED <<pubsubUp, jobVars, opsVars, boot, stalled, gw, dash, stats>>

\* await UserEventPublisher.publishUser...(...): it resolves in either case
MutationPublish ==
  /\ mut.pc = "publish"
  /\ CASE mut.op = "signUp" ->
            PubSubPublish("publishUserCreated", USER_CREATED,
                          [key |-> "userCreated",
                           body |-> [user |-> mut.user, timestamp |-> now]])
       [] mut.op = "updateUserProfile" ->
            PubSubPublish("publishUserUpdated", USER_UPDATED,
                          [key |-> "userUpdated",
                           body |-> [user |-> mut.user,
                                     previousValues |-> [email |-> "old"],
                                     timestamp |-> now]])
       [] mut.op = "deleteUser" ->
            PubSubPublish("publishUserDeleted", USER_DELETED,
                          [key |-> "userDeleted",
                           body |-> [id |-> mut.user.id, email |-> mut.user.email,
                                     timestamp |-> now]])
  /\ mut' = [Called("publish", ~pubsubUp) EXCEPT
               !.pc = AfterCall(mut.op, "publish"),
               !.outcome = IF AfterCall(mut.op, "publish") = "idle"
                           THEN "returned" ELSE "none"]
  /\ UNCHANGED <<pubsubUp, jobVars, opsVars, boot, stalled, gw, dash, stats>>

\* await JobService.addUserJob({ type: PROCESS_USER_SIGNUP or
\* PROCESS_USER_DELETION, ... }): it throws when the queue is out of reach
MutationAddUserJob ==
  /\ mut.pc = "addUserJob"
  /\ QueueAdd("addUserJob", USER_PROCESSING,
              IF mut.op = "signUp" THEN PROCESS_USER_SIGNUP
              ELSE PROCESS_USER_DELETION, NoOptions)
  /\ mut' = IF redisUp
            THEN [Called("addUserJob", FALSE) EXCEPT
                    !.pc = AfterCall(mut.op, "addUserJob"),
                    !.outcome = IF AfterCall(mut.op, "addUserJob") = "idle"
                                THEN "returned" ELSE "none"]
            ELSE [Called("addUserJob", TRUE) EXCEPT
                    !.pc = "idle", !.outcome = "error"]
  /\ UNCHANGED <<limiter, startLog, throws, now, redisUp>>
  /\ UNCHANGED <<pubsubVars, opsVars, boot, stalled, gw, dash, stats>>

\* await JobService.addEmailJob({ type: SEND_WELCOME_EMAIL, ... })
MutationAddEmailJob ==
  /\ mut.pc = "addEmailJob"
  /\ QueueAdd("addEmailJob", EMAIL, SEND_WELCOME_EMAIL, NoOptions)
  /\ mut' = IF redisUp
            THEN [Called("addEmailJob", FALSE) EXCEPT
                    !.pc = "idle", !.outcome = "returned"]
            ELSE [Called("addEmailJob", TRUE) EXCEPT
                    !.pc = "idle", !.outcome = "error"]
  /\ UNCHANGED <<limiter, startLog, throws, now, redisUp>>
  /\ UNCHANGED <<pubsubVars, opsVars, boot, stalled, gw, dash, stats>>

(***************************************************************************)
(* Spec: the life of the jobs the request handlers enqueue on one queue,   *)
(* with the broker available.  The four queues share no state: each has    *)
(* its own keys in Redis and its own worker.                               *)
(***************************************************************************)
JobTypeInputs(q) == AllowedTypes[q] \cup {UnknownType}

OptionInputs ==
  {NoOptions, [NoOptions EXCEPT !["delay"] = 3000]}
    \cup {[NoOptions EXCEPT !["attempts"] = a] : a \in 0..2}

\* the callers of a behaviour enqueue at most MaxJobs jobs, all on queue q
MayEnqueue(q) == Len(jobs) < MaxJobs /\ \A i \in Ids : jobs[i].queue = q

NoCleanup == [pc |-> "idle", at |-> 1, results |-> <<>>, runs |-> 0, errorLogs |-> 0]

NoShutdown ==
  [pc |-> "idle", closePubSub |-> "none", stopJobWorkers |-> "none",
   closeJobQueues |-> "none", errorLogs |-> 0, inProcess |-> {},
   calledAt |-> 0]

NoStalled == [worker |-> <<>>, events |-> <<>>, warnLogs |-> 0]

\* bootstrap before its first step, and after a start with Redis in reach
NotBooted ==
  [pc |-> "initializePubSub", initializePubSub |-> "none",
   initializeJobQueues |-> "none", startJobWorkers |-> "none",
   listeners |-> FALSE, warnLogs |-> 0, errorLogs |-> 0]

Booted ==
  [pc |-> "serving", initializePubSub |-> "returned",
   initializeJobQueues |-> "returned", startJobWorkers |-> "returned",
   listeners |-> TRUE, warnLogs |-> 0, errorLogs |-> 0]

InitPubSubState ==
  /\ boot = Booted
  /\ stalled = NoStalled
  /\ gw = NoGateway
  /\ dash = NoDashboard
  /\ mut = NoMutation
  /\ stats = NoStats
  /\ cleanup = NoCleanup
  /\ workers = [q \in JOB_QUEUES |-> "running"]
  /\ conn = "ready"
  /\ shutdown = NoShutdown
  /\ subs = <<>>
  /\ pubsubUp = TRUE
  /\ published = 0
  /\ sent = [t \in SUBSCRIPTION_TOPICS |-> <<>>]
  /\ lastPublish = NoPublish

Init ==
  /\ InitPubSubState
  /\ jobs = <<>>
  /\ wait = [q \in JOB_QUEUES |-> <<>>]
  /\ limiter = [q \in JOB_QUEUES |-> [count |-> 0, expireAt |-> 0]]
  /\ startLog = [q \in JOB_QUEUES |-> <<>>]
  /\ throws = 0
  /\ now = 0
  /\ redisUp = TRUE
  /\ lastCall = NoCall

Next ==
  \/ \E name \in JobTypeInputs(EMAIL), o \in OptionInputs :
       MayEnqueue(EMAIL) /\ addEmailJob(name, o)
  \/ \E name \in JobTypeInputs(USER_PROCESSING), o \in OptionInputs :
       MayEnqueue(USER_PROCESSING) /\ addUserJob(name, o)
  \/ \E name \in JobTypeInputs(NOTIFICATIONS), o \in OptionInputs :
       MayEnqueue(NOTIFICATIONS) /\ addNotificationJob(name, o)
  \/ \E name \in JobTypeInputs(DATA_EXPORT), o \in OptionInputs :
       MayEnqueue(DATA_EXPORT) /\ addDataExportJob(name, o)
  \/ \E q \in JOB_QUEUES : Claim(q)
  \/ \E id \in Ids, failAt \in 0..MaxSteps, err \in Errors :
       /\ failAt <= Len(Processor(jobs[id], 0, err).reported)
       /\ failAt = 0 => err = "ECONNRESET"
       /\ Process(id, failAt, err)
  \/ \E id \in Ids : Promote(id)
  \/ Tick
  \/ RedisDown
  \/ RedisBack

Spec == Init /\ [][Next]_vars

(***************************************************************************)
(* SpecLive: the life of the jobs while the broker stays available and the *)
(* workers keep running.  A running worker keeps fetching, so Claim is     *)
(* taken when it stays possible; a handler awaits timers of at most 1.5 s  *)
(* and broker calls that are answered, so it ends; the broker promotes a   *)
(* delayed job when it is due; and time passes.                            *)
(***************************************************************************)
HandlerEnds(id) ==
  \E failAt \in 0..MaxSteps, err \in Errors :
    /\ failAt <= Len(Processor(jobs[id], 0, err).reported)
    /\ failAt = 0 => err = "ECONNRESET"
    /\ Process(id, failAt, err)

NextLive ==
  \/ \E name \in JobTypeInputs(EMAIL), o \in OptionInputs :
       MayEnqueue(EMAIL) /\ addEmailJob(name, o)
  \/ \E name \in JobTypeInputs(USER_PROCESSING), o \in OptionInputs :
       MayEnqueue(USER_PROCESSING) /\ addUserJob(name, o)
  \/ \E name \in JobTypeInputs(NOTIFICATIONS), o \in OptionInputs :
       MayEnqueue(NOTIFICATIONS) /\ addNotificationJob(name, o)
  \/ \E name \in JobTypeInputs(DATA_EXPORT), o \in OptionInputs :
       MayEnqueue(DATA_EXPORT) /\ addDataExportJob(name, o)
  \/ \E q \in JOB_QUEUES : Claim(q)
  \/ \E id \in Ids : HandlerEnds(id)
  \/ \E id \in Ids : Promote(id)
  \/ Tick

Fairness ==
  /\ \A q \in JOB_QUEUES : WF_vars(Claim(q))
  /\ \A id \in 1..MaxJobs : WF_vars(id \in Ids /\ HandlerEnds(id))
  /\ \A id \in 1..MaxJobs : WF_vars(Promote(id))
  /\ WF_vars(Tick)

SpecLive == Init /\ [][NextLive]_vars /\ Fairness

(***************************************************************************)
(* SpecOptions: the enqueue operations called with every mix of overrides. *)
(***************************************************************************)
OverrideInputs ==
  {[delay |-> d, attempts |-> a, backoff |-> b,
    removeOnComplete |-> c, removeOnFail |-> f] :
     d \in {Undefined, 3000}, a \in {Undefined, 0, 4},
     b \in {Undefined, 100}, c \in {Undefined, 0}, f \in {Undefined, 2}}

NextOptions ==
  \/ \E name \in AllowedTypes[EMAIL], o \in OverrideInputs :
       MayEnqueue(EMAIL) /\ addEmailJob(name, o)
  \/ \E name \in AllowedTypes[USER_PROCESSING], o \in OverrideInputs :
       MayEnqueue(USER_PROCESSING) /\ addUserJob(name, o)
  \/ \E name \in AllowedTypes[NOTIFICATIONS], o \in OverrideInputs :
       MayEnqueue(NOTIFICATIONS) /\ addNotificationJob(name, o)
  \/ \E name \in AllowedTypes[DATA_EXPORT], o \in OverrideInputs :
       MayEnqueue(DATA_EXPORT) /\ addDataExportJob(name, o)
  \/ RedisDown
  \/ RedisBack

SpecOptions == Init /\ [][NextOptions]_vars

(***************************************************************************)
(* SpecLoad: a queue under sustained load.  More jobs than the worker has  *)
(* slots were enqueued with the family's default options before the worker *)
(* fetched the first of them.  The jobs of the load are alike: of several   *)
(* jobs in the same state the one with the least id is taken to move       *)
(* first, any other choice giving the same state up to the jobs' names.    *)
(***************************************************************************)
First(id) == \A k \in 1..(id - 1) : jobs[k] # jobs[id]

LoadOf(q) == WorkerConcurrency[q] + MaxExtra

LoadedJobs(q, name, n) ==
  [i \in 1..n |-> NewJob(q, name, JobOptions(q, NoOptions))]

InitLoad ==
  /\ InitPubSubState
  /\ now = 0
  /\ \E q \in JOB_QUEUES :
       /\ \E name \in AllowedTypes[q] : jobs = LoadedJobs(q, name, LoadOf(q))
       /\ wait = [p \in JOB_QUEUES |->
                    IF p = q THEN [i \in 1..LoadOf(q) |-> i] ELSE <<>>]
  /\ limiter = [q \in JOB_QUEUES |-> [count |-> 0, expireAt |-> 0]]
  /\ startLog = [q \in JOB_QUEUES |-> <<>>]
  /\ throws = 0
  /\ redisUp = TRUE
  /\ lastCall = NoCall

NextLoad ==
  \/ \E q \in JOB_QUEUES : Claim(q)
  \/ \E id \in Ids : First(id) /\ Process(id, 0, "ECONNRESET")
  \/ \E id \in Ids : First(id) /\ throws < MaxThrows /\ Process(id, 1, "ECONNRESET")
  \/ \E id \in Ids : First(id) /\ Promote(id)
  \/ Tick

SpecLoad == InitLoad /\ [][NextLoad]_vars

(***************************************************************************)
(* SpecRate: a queue whose limiter is within reach of the load.  The jobs  *)
(* of the load and their retries together can start more often than the    *)
(* limiter's max.                                                          *)
(***************************************************************************)
RateQueues == {q \in JOB_QUEUES : LimiterMax[q] < MaxRateJobs + MaxRateThrows}

InitRate ==
  /\ InitPubSubState
  /\ now = 0
  /\ \E q \in RateQueues :
       /\ jobs = LoadedJobs(q, CHOOSE name \in AllowedTypes[q] : TRUE, MaxRateJobs)
       /\ wait = [p \in JOB_QUEUES |->
                    IF p = q THEN [i \in 1..MaxRateJobs |-> i] ELSE <<>>]
  /\ limiter = [q \in JOB_QUEUES |-> [count |-> 0, expireAt |-> 0]]
  /\ startLog = [q \in JOB_QUEUES |-> <<>>]
  /\ throws = 0
  /\ redisUp = TRUE
  /\ lastCall = NoCall

NextRate ==
  \/ \E q \in JOB_QUEUES : Claim(q)
  \/ \E id \in Ids : First(id) /\ Process(id, 0, "ECONNRESET")
  \/ \E id \in Ids : First(id) /\ throws < MaxRateThrows /\ Process(id, 1, "ECONNRESET")
  \/ \E id \in Ids : First(id) /\ Promote(id)
  \/ Tick

SpecRate == InitRate /\ [][NextRate]_vars

(***************************************************************************)
(* SpecCleanup: cleanupQueues on a schedule over a queue with a history.   *)
(* The jobs of the history were added with removeOnComplete and            *)
(* removeOnFail set by the caller, so that the sets hold what the cleanup  *)
(* is there to remove: completed and failed jobs past their grace, some at *)
(* the edge of it and some short of it, next to a job of the family's      *)
(* defaults that is still waiting.                                         *)
(***************************************************************************)
\* the clock at the first cleanup: the history starts at 1
CleanupTime == FailedGrace + CompletedGrace

KeptOptions ==
  [NoOptions EXCEPT !["removeOnComplete"] = 1000, !["removeOnFail"] = 1000]

Finished(q, name, st, at) ==
  [NewJob(q, name, JobOptions(q, KeptOptions)) EXCEPT
     !.status = st, !.finishedOn = at, !.attemptsMade = 3, !.starts = 3,
     !.runs = 3]

\* nc completed and nf failed jobs past their grace, finished one per
\* millisecond; a completed and a failed job that finished exactly one grace
\* ago, and one of each a millisecond later; a failed job two days old; a
\* waiting job
History(q, name, nc, nf) ==
  [k \in 1..nc |-> Finished(q, name, "completed", k)]
    \o [k \in 1..nf |-> Finished(q, name, "failed", k)]
    \o << Finished(q, name, "completed", CleanupTime - CompletedGrace),
          Finished(q, name, "completed", CleanupTime - CompletedGrace + 1),
          Finished(q, name, "failed", CleanupTime - FailedGrace),
          Finished(q, name, "failed", CleanupTime - FailedGrace + 1),
          Finished(q, name, "failed", CleanupTime - 2 * CompletedGrace),
          NewJob(q, name, JobOptions(q, NoOptions)) >>

CompletedInputs == {0, CompletedLimit - 2, MaxAgedCompleted}

FailedInputs == {0, FailedLimit - 2, MaxAgedFailed}

InitCleanup ==
  /\ InitPubSubState
  /\ now = CleanupTime
  /\ \E q \in JOB_QUEUES, nc \in CompletedInputs, nf \in FailedInputs :
       /\ jobs = History(q, CHOOSE name \in AllowedTypes[q] : TRUE, nc, nf)
       /\ wait = [p \in JOB_QUEUES |->
                    IF p = q THEN <<nc + nf + 6>> ELSE <<>>]
  /\ limiter = [q \in JOB_QUEUES |-> [count |-> 0, expireAt |-> 0]]
  /\ startLog = [q \in JOB_QUEUES |-> <<>>]
  /\ throws = 0
  /\ redisUp = TRUE
  /\ lastCall = NoCall

NextCleanup ==
  \/ cleanup.runs < MaxCleanups /\ cleanupQueues
  \/ cleanupNextQueue
  \/ \E q \in JOB_QUEUES : Claim(q)
  \/ \E id \in Ids : Process(id, 0, "ECONNRESET")
  \/ \E id \in Ids : throws < MaxThrows /\ Process(id, 1, "ECONNRESET")
  \/ RedisDown
  \/ RedisBack

SpecCleanup == InitCleanup /\ [][NextCleanup]_vars

(***************************************************************************)
(* SpecShutdown: SIGINT arrives while a queue has jobs waiting and in      *)
(* process.  Nothing of the process runs once it has exited.               *)
(***************************************************************************)
InitShutdown ==
  /\ InitPubSubState
  /\ now = 0
  /\ \E q \in JOB_QUEUES :
       /\ \E name \in AllowedTypes[q] :
            jobs = LoadedJobs(q, name, MaxShutdownJobs)
       /\ wait = [p \in JOB_QUEUES |->
                    IF p = q THEN [i \in 1..MaxShutdownJobs |-> i] ELSE <<>>]
  /\ limiter = [q \in JOB_QUEUES |-> [count |-> 0, expireAt |-> 0]]
  /\ startLog = [q \in JOB_QUEUES |-> <<>>]
  /\ throws = 0
  /\ redisUp = TRUE
  /\ lastCall = NoCall

Exited == shutdown.pc = "exited"

NextShutdown ==
  \/ \E q \in JOB_QUEUES : ~Exited /\ Claim(q)
  \/ \E id \in Ids : ~Exited /\ First(id) /\ Process(id, 0, "ECONNRESET")
  \/ \E id \in Ids :
       ~Exited /\ First(id) /\ throws < MaxThrows /\ Process(id, 1, "ECONNRESET")
  \/ RedisDown
  \/ RedisBack
  \/ PubSubDown
  \/ PubSubBack
  \/ SIGINT
  \/ serverStop
  \/ closePubSub
  \/ stopJobWorkers
  \/ \E q \in JOB_QUEUES : WorkerClose(q)
  \/ closeJobQueues
  \/ stopJobWorkersThrows
  \/ redisQuit
  \/ processExit

SpecShutdown == InitShutdown /\ [][NextShutdown]_vars

(***************************************************************************)
(* SpecExit: the shutdown with every awaited call settling.  server.stop,  *)
(* the Redis commands of closePubSub and closeJobQueues and process.exit   *)
(* end; a handler takes a bounded time, and the queue-side connection      *)
(* rejects a command at once while Redis is out of reach, so that while    *)
(* stopJobWorkers waits either a job in process is reported or a close()   *)
(* rejects.                                                                *)
(***************************************************************************)
AwaitedCloseSettles ==
  \/ \E id \in Ids : ~Exited /\ First(id) /\ Process(id, 0, "ECONNRESET")
  \/ stopJobWorkersThrows

FairnessExit ==
  /\ WF_vars(serverStop)
  /\ WF_vars(closePubSub)
  /\ WF_vars(stopJobWorkers)
  /\ WF_vars(AwaitedCloseSettles)
  /\ \A q \in JOB_QUEUES : WF_vars(WorkerClose(q))
  /\ WF_vars(closeJobQueues)
  /\ WF_vars(redisQuit)
  /\ WF_vars(processExit)

SpecExit == InitShutdown /\ [][NextShutdown]_vars /\ FairnessExit

(***************************************************************************)
(* SpecDrain: the shutdown with the clock running, so that handlers may    *)
(* take their time and retries come due while the workers close.           *)
(***************************************************************************)
NextDrain ==
  \/ \E q \in JOB_QUEUES : ~Exited /\ Claim(q)
  \/ \E id \in Ids : ~Exited /\ First(id) /\ Process(id, 0, "ECONNRESET")
  \/ \E id \in Ids :
       ~Exited /\ First(id) /\ throws < MaxThrows /\ Process(id, 1, "ECONNRESET")
  \/ \E id \in Ids : First(id) /\ Promote(id)
  \/ Tick
  \/ RedisDown
  \/ RedisBack
  \/ SIGINT
  \/ serverStop
  \/ closePubSub
  \/ stopJobWorkers
  \/ \E q \in JOB_QUEUES : WorkerClose(q)
  \/ closeJobQueues
  \/ stopJobWorkersThrows
  \/ redisQuit
  \/ processExit

SpecDrain == InitShutdown /\ [][NextDrain]_vars

(***************************************************************************)
(* SpecStall: Redis goes away under running handlers, and the stalled      *)
(* check finds their jobs when it is back.                                 *)
(***************************************************************************)
NextStall ==
  \/ \E q \in JOB_QUEUES : Claim(q)
  \/ \E id \in Ids : First(id) /\ Process(id, 0, "ECONNRESET")
  \/ \E id \in Ids : First(id) /\ throws < MaxThrows /\ Process(id, 1, "ECONNRESET")
  \/ \E id \in Ids : LockExpires(id)
  \/ \E id \in Ids : HandlerEndsUnreported(id)
  \/ \E id \in Ids : MoveStalledJobsToWait(id)
  \/ workerOnStalled
  \/ eventsOnStalled
  \/ RedisDown
  \/ RedisBack

SpecStall == InitShutdown /\ [][NextStall]_vars

(***************************************************************************)
(* SpecStats: getQueueStats is called while jobs are enqueued and worked   *)
(* on and Redis comes and goes.                                            *)
(***************************************************************************)
NextStats ==
  \/ \E name \in AllowedTypes[EMAIL] :
       MayEnqueue(EMAIL) /\ addEmailJob(name, NoOptions)
  \/ \E name \in AllowedTypes[DATA_EXPORT] :
       MayEnqueue(DATA_EXPORT) /\ addDataExportJob(name, NoOptions)
  \/ \E q \in JOB_QUEUES : Claim(q)
  \/ \E id \in Ids : Process(id, 0, "ECONNRESET")
  \/ \E id \in Ids : Process(id, 1, "ECONNRESET")
  \/ getQueueStats
  \/ getQueueStatsNextQueue
  \/ RedisDown
  \/ RedisBack

SpecStats == Init /\ [][NextStats]_vars

(***************************************************************************)
(* SpecDashboard: requests to the dashboard of a process started with any  *)
(* environment.                                                            *)
(***************************************************************************)
EnvInputs ==
  {UndefinedValue, Str("production"), Str("development"), Str("Production")}

TokenSettings == {UndefinedValue, Str("s3cret")}

AuthHeaderInputs ==
  {UndefinedValue, Str("Bearer s3cret"), Str("Bearer undefined"),
   Str("Bearer wrong"), Str("bearer s3cret"), Str("s3cret"),
   Str("Basic s3cret")}

InitDashboard ==
  /\ boot = Booted
  /\ stalled = NoStalled
  /\ gw = NoGateway
  /\ \E env \in EnvInputs, token \in TokenSettings :
       dash = [NoDashboard EXCEPT !.NODE_ENV = env, !.DASHBOARD_TOKEN = token]
  /\ mut = NoMutation
  /\ stats = NoStats
  /\ cleanup = NoCleanup
  /\ workers = [q \in JOB_QUEUES |-> "running"]
  /\ conn = "ready"
  /\ shutdown = NoShutdown
  /\ subs = <<>>
  /\ pubsubUp = TRUE
  /\ published = 0
  /\ sent = [t \in SUBSCRIPTION_TOPICS |-> <<>>]
  /\ lastPublish = NoPublish
  /\ jobs = <<>>
  /\ wait = [q \in JOB_QUEUES |-> <<>>]
  /\ limiter = [q \in JOB_QUEUES |-> [count |-> 0, expireAt |-> 0]]
  /\ startLog = [q \in JOB_QUEUES |-> <<>>]
  /\ throws = 0
  /\ now = 0
  /\ redisUp = TRUE
  /\ lastCall = NoCall

NextDashboard ==
  \E authHeader \in AuthHeaderInputs : dashboardRequest(authHeader)

SpecDashboard == InitDashboard /\ [][NextDashboard]_vars

(***************************************************************************)
(* SpecBoot: the process starts while Redis comes and goes; once the       *)
(* server listens its mutations enqueue, and the workers fetch all along.  *)
(***************************************************************************)
InitBoot ==
  /\ boot = NotBooted
  /\ stalled = NoStalled
  /\ gw = NoGateway
  /\ dash = NoDashboard
  /\ mut = NoMutation
  /\ stats = NoStats
  /\ cleanup = NoCleanup
  /\ workers = [q \in JOB_QUEUES |-> "running"]
  /\ conn = "ready"
  /\ shutdown = NoShutdown
  /\ subs = <<>>
  /\ pubsubUp = TRUE
  /\ published = 0
  /\ sent = [t \in SUBSCRIPTION_TOPICS |-> <<>>]
  /\ lastPublish = NoPublish
  /\ jobs = <<>>
  /\ wait = [q \in JOB_QUEUES |-> <<>>]
  /\ limiter = [q \in JOB_QUEUES |-> [count |-> 0, expireAt |-> 0]]
  /\ startLog = [q \in JOB_QUEUES |-> <<>>]
  /\ throws = 0
  /\ now = 0
  /\ redisUp = TRUE
  /\ lastCall = NoCall

Serving == boot.pc = "serving"

NextBoot ==
  \/ initializePubSub
  \/ initializeJobQueues
  \/ startJobWorkers
  \/ startServer
  \/ \E name \in AllowedTypes[EMAIL], o \in OptionInputs :
       Serving /\ MayEnqueue(EMAIL) /\ addEmailJob(name, o)
  \/ \E name \in AllowedTypes[USER_PROCESSING], o \in OptionInputs :
       Serving /\ MayEnqueue(USER_PROCESSING) /\ addUserJob(name, o)
  \/ \E q \in JOB_QUEUES : Claim(q)
  \/ \E id \in Ids : Process(id, 0, "ECONNRESET")
  \/ RedisDown
  \/ RedisBack
  \/ PubSubDown
  \/ PubSubBack

SpecBoot == InitBoot /\ [][NextBoot]_vars

(***************************************************************************)
(* SpecPubSub: clients subscribe and unsubscribe while the request         *)
(* handlers publish user events.                                           *)
(***************************************************************************)
UserInputs == {[id |-> Str(u), email |-> u] : u \in {"1", "2"}}

\* context.currentUser of an authenticated request: the id is a number
CurrentUserInputs == {[id |-> Num(u)] : u \in {"1", "2"}}

\* the userId argument of userUpdated and userOnline: absent, empty or an id
UserIdInputs == {UndefinedValue, NullValue, Str("")} \cup {u.id : u \in UserInputs}

VariableInputs(field) ==
  IF field \in {"userUpdated", "userOnline"}
  THEN {[userId |-> v] : v \in UserIdInputs}
  ELSE {[userId |-> UndefinedValue]}

InitPubSub ==
  /\ InitPubSubState
  /\ jobs = <<>>
  /\ wait = [q \in JOB_QUEUES |-> <<>>]
  /\ limiter = [q \in JOB_QUEUES |-> [count |-> 0, expireAt |-> 0]]
  /\ startLog = [q \in JOB_QUEUES |-> <<>>]
  /\ throws = 0
  /\ now = 0
  /\ redisUp = TRUE
  /\ lastCall = NoCall

NextPubSub ==
  \/ \E field \in SubscriptionFields :
       \E variables \in VariableInputs(field) :
         Len(subs) < MaxSubs /\ Subscribe(field, variables)
  \/ \E user \in UserInputs :
       published < MaxPublishes /\ publishUserCreated(user)
  \/ \E user \in UserInputs :
       published < MaxPublishes /\ publishUserUpdated(user, [email |-> "old"])
  \/ \E user \in UserInputs :
       published < MaxPublishes /\ publishUserDeleted(user)
  \/ \E currentUser \in CurrentUserInputs :
       published < MaxPublishes /\ updateUserProfile(currentUser, [email |-> "old"])
  \/ \E user \in UserInputs, isOnline \in BOOLEAN :
       published < MaxPublishes /\ publishUserOnline(user, isOnline)
  \/ \E i \in DOMAIN subs : Deliver(i)
  \/ \E i \in DOMAIN subs : Unsubscribe(i)
  \/ PubSubDown
  \/ PubSubBack

SpecPubSub == InitPubSub /\ [][NextPubSub]_vars

(***************************************************************************)
(* SpecGateway: clients connect to the gateway, subscribe and leave, and   *)
(* the gateway is closed.                                                  *)
(***************************************************************************)
TokenInputs == {UndefinedValue, Str(""), Str("Bearer valid"), Str("garbage")}

ConnectionParamInputs ==
  {[Authorization |-> a, authorization |-> b] :
     a \in TokenInputs, b \in TokenInputs}

NextGateway ==
  \/ \E c \in Conns, connectionParams \in ConnectionParamInputs :
       ConnectionInit(c, connectionParams)
  \/ \E c \in Conns, field \in SubscriptionFields,
        module \in UseServerModules :
       \E variables \in VariableInputs(field) :
         GatewaySubscribe(c, field, variables, module)
  \/ \E c \in Conns : Disconnect(c)
  \/ closeWebSocketServer

SpecGateway == InitPubSub /\ [][NextGateway]_vars

(***************************************************************************)
(* SpecMutation: user mutations against a store and two Redis connections  *)
(* that come and go, with one subscription open on each user topic.        *)
(***************************************************************************)
PersistenceOutcomes == {"committed", "failed", "notFound"}

NextMutation ==
  \/ \E user \in UserInputs, p \in PersistenceOutcomes : signUp(user, p)
  \/ \E user \in UserInputs, p \in PersistenceOutcomes :
       updateUserProfileUpdate(user, p)
  \/ \E user \in UserInputs, p \in PersistenceOutcomes : deleteUser(user, p)
  \/ MutationPublish
  \/ MutationAddUserJob
  \/ MutationAddEmailJob
  \/ RedisDown
  \/ RedisBack
  \/ PubSubDown
  \/ PubSubBack

SpecMutation == InitPubSub /\ [][NextMutation]_vars

(***************************************************************************)
(* Concurrency and rate limits.                                            *)
(***************************************************************************)
\* C1: for every queue, in every reachable state at most `concurrency` jobs
\* of the queue (email 5, user-processing 3, notifications 8, data-export 2)
\* are active, however many jobs are waiting
ConcurrencyCeiling ==
  \A q \in JOB_QUEUES : Cardinality(JobsOf(q, "active")) <= WorkerConcurrency[q]

\* the worker is full while jobs wait
ConcurrencyCeilingWitness ==
  \E q \in JOB_QUEUES :
    /\ Cardinality(JobsOf(q, "active")) = WorkerConcurrency[q]
    /\ wait[q] # <<>>

\* the job starts of queue q in the window of `duration` ms that ends now
StartsInWindow(q) == Len(SelectSeq(startLog[q], LAMBDA t : InWindow(q, t)))

\* the job starts of queue q since its limiter key was last created
StartsOfKey(q) ==
  Len(SelectSeq(startLog[q],
                LAMBDA t : t >= limiter[q].expireAt - LimiterDuration[q]))

\* C2 as stated: for every queue, the number of job starts in any sliding
\* window of `duration` ms never exceeds `max`
SlidingWindowLimit ==
  \A q \in JOB_QUEUES : StartsInWindow(q) <= LimiterMax[q]

\* C2 as amended: for every queue, at most `max` jobs start in the `duration`
\* ms that follow the start that created the limiter key, and the key's
\* counter is the number of these starts
FixedWindowLimit ==
  \A q \in JOB_QUEUES :
    /\ StartsOfKey(q) <= LimiterMax[q]
    /\ limiter[q].count = StartsOfKey(q)

\* the limiter holds back a waiting job although the worker has a free slot
FixedWindowLimitWitness ==
  \E q \in JOB_QUEUES :
    /\ LimiterCount(q) = LimiterMax[q]
    /\ wait[q] # <<>>
    /\ HasFreeSlot(q)

(***************************************************************************)
(* Retries and the status of a job.                                        *)
(***************************************************************************)
NonDecreasing(s) == \A k \in 1..(Len(s) - 1) : s[k] <= s[k + 1]

\* C3: a job whose handler throws on every attempt is executed exactly
\* opts.attempts times (the family default or the caller's override) and is
\* then failed; it is never started an (attempts + 1)-th time, and the delays
\* between its consecutive attempts never decrease
RetriedUntilMaxAttempts ==
  \A i \in Ids :
    /\ jobs[i].starts <= jobs[i].opts["attempts"]
    /\ jobs[i].status = "failed" => jobs[i].runs = jobs[i].opts["attempts"]
    /\ NonDecreasing(jobs[i].delays)

\* the status changes the claim allows
StatedPath ==
  {<<"waiting", "active">>, <<"active", "completed">>, <<"active", "failed">>,
   <<"failed", "waiting">>, <<"waiting", "delayed">>, <<"delayed", "waiting">>}

HandlerRethrows ==
  \A i \in Ids :
    /\ jobs[i].raised # "none" =>
         /\ jobs[i].status # "completed"
         /\ jobs[i].failedReason = jobs[i].raised
    /\ jobs[i].errorLogs =
         jobs[i].runs - (IF jobs[i].status = "completed" THEN 1 ELSE 0)

\* a progress update after the first one rejected and the job is failed
HandlerRethrowsWitness ==
  \E i \in Ids :
    /\ jobs[i].status = "failed"
    /\ jobs[i].raised = "Missing key for job"
    /\ jobs[i].reported # <<>>

\* C6: the worker invokes the handler once per claim of a job and reports its
\* outcome; an attempt after a failure follows a new claim of the re-queued job
OneInvocationPerClaim ==
  \A i \in Ids :
    /\ jobs[i].runs = jobs[i].starts - (IF jobs[i].status = "active" THEN 1 ELSE 0)
    /\ jobs[i].attemptsMade = jobs[i].runs

\* a job was claimed again after a failed attempt
OneInvocationPerClaimWitness ==
  \E i \in Ids :
    /\ jobs[i].starts >= 2
    /\ jobs[i].errorLogs >= 1
    /\ jobs[i].status \in {"completed", "failed"}

(***************************************************************************)
(* Enqueueing.                                                             *)
(***************************************************************************)
\* C7: an add*Job call whose data.type is not a tag of the queue's family is
\* rejected before the broker is called: the broker never holds such a job
EnqueueRejectsForeignType ==
  \A i \in Ids : jobs[i].name \in AllowedTypes[jobs[i].queue]

\* C8: an add*Job call made while the broker is unavailable throws, returns
\* no job and adds none; a call that returns has added the job it returns
EnqueuePropagatesBrokerFailure ==
  [][lastCall' # lastCall =>
       /\ ~redisUp =>
            /\ lastCall'.outcome = "threw"
            /\ lastCall'.jobId = 0
            /\ lastCall'.errorLogs = 1
            /\ jobs' = jobs
       /\ lastCall'.outcome = "returned" =>
            /\ Len(jobs') = Len(jobs) + 1
            /\ lastCall'.jobId = Len(jobs')]_vars

\* an add*Job call has failed on the unavailable broker
EnqueuePropagatesBrokerFailureWitness ==
  /\ ~redisUp
  /\ lastCall.outcome = "threw"
  /\ lastCall.op = "addUserJob"

(***************************************************************************)
(* Publishing and filtered subscriptions.                                  *)
(***************************************************************************)
\* C9: when pubSub.publish fails, each of the four publish operations still
\* resolves, hands no error to its caller and writes exactly one error log
\* entry (and no success entry)
PublishFailureIsLoggedNotThrown ==
  [][(published' # published /\ ~pubsubUp) =>
       /\ lastPublish'.outcome = "resolved"
       /\ lastPublish'.errorLogs = 1
       /\ lastPublish'.infoLogs = 0
       /\ subs' = subs]_vars

\* a publish has failed while a subscription was open on its topic
PublishFailureIsLoggedNotThrownWitness ==
  /\ ~pubsubUp
  /\ lastPublish.failed
  /\ \E i \in DOMAIN subs :
       /\ subs[i].open
       /\ TopicOf[subs[i].field] = USER_UPDATED
       /\ lastPublish.op = "publishUserUpdated"

\* the subscriptions of the filtered fields
FilteredSubs ==
  {i \in DOMAIN subs : subs[i].field \in {"userUpdated", "userOnline"}}

YieldsOnly(i, id) ==
  \A k \in 1..Len(subs[i].yielded) : subs[i].yielded[k].body.user.id = id

\* C10 as stated: a userUpdated or userOnline subscription opened with
\* userId = X never yields an envelope whose payload user id differs from X
FilteredSubscriptionYieldsOnlyItsUser ==
  \A i \in FilteredSubs :
    subs[i].variables.userId.t = "string" =>
      YieldsOnly(i, subs[i].variables.userId)

\* C10 as amended: a userUpdated or userOnline subscription opened with a
\* non-empty userId = X never yields an envelope whose payload user id
\* differs from X
NonEmptyFilterYieldsOnlyItsUser ==
  \A i \in FilteredSubs :
    (subs[i].variables.userId.t = "string" /\ subs[i].variables.userId.v # "") =>
      YieldsOnly(i, subs[i].variables.userId)

\* a subscription for one user has yielded that user's envelope and has
\* skipped an envelope of another user
NonEmptyFilterYieldsOnlyItsUserWitness ==
  \E i \in FilteredSubs :
    /\ subs[i].field = "userUpdated"
    /\ subs[i].variables.userId = Str("1")
    /\ subs[i].yielded # <<>>
    /\ subs[i].skipped > 0

\* the decimal text of an id, whatever its JavaScript type
IdText(x) == x.v

\* C11: a userUpdated or userOnline subscription opened with userId = X
\* receives every envelope published on its topic for the user whose id is
\* X: its filter skips only envelopes of other users, with the ids as the
\* mutation updateUserProfile and the subscription argument represent them
FilterSkipsOnlyOtherUsers ==
  [][\A i \in DOMAIN subs :
       (/\ subs[i].field \in {"userUpdated", "userOnline"}
        /\ Truthy(subs[i].variables.userId)
        /\ subs'[i].skipped > subs[i].skipped) =>
         IdText(Head(subs[i].inbox).body.user.id) #
           IdText(subs[i].variables.userId)]_vars

\* what the filter arguments of subscription i alone say about payload
OwnFilterAccepts(i, payload) ==
  \/ subs[i].field \notin {"userUpdated", "userOnline"}
  \/ ~Truthy(subs[i].variables.userId)
  \/ StrictEquals(payload.body.user.id, subs[i].variables.userId)

\* subscription i has taken the next payload of its iterator
Consumes(i) ==
  /\ subs[i].open
  /\ subs'[i].open
  /\ Len(subs'[i].inbox) < Len(subs[i].inbox)

\* C12: filtering is per subscription: whether an envelope is yielded to a
\* subscription is decided by that subscription's own filter arguments, and
\* the step changes nothing of any other subscription
FilteringIsPerSubscription ==
  [][\A i \in DOMAIN subs :
       Consumes(i) =>
         /\ subs'[i].inbox = Tail(subs[i].inbox)
         /\ IF OwnFilterAccepts(i, Head(subs[i].inbox))
            THEN /\ subs'[i].yielded = Append(subs[i].yielded, Head(subs[i].inbox))
                 /\ subs'[i].skipped = subs[i].skipped
            ELSE /\ subs'[i].yielded = subs[i].yielded
                 /\ subs'[i].skipped = subs[i].skipped + 1
         /\ \A j \in DOMAIN subs \ {i} : subs'[j] = subs[j]]_vars

\* two subscriptions open on USER_UPDATED with different arguments: the second
\* has yielded an envelope that the first has skipped
FilteringIsPerSubscriptionWitness ==
  /\ Len(subs) >= 2
  /\ subs[1].field = "userUpdated" /\ subs[2].field = "userUpdated"
  /\ subs[1].open /\ subs[2].open
  /\ subs[1].variables.userId = Str("1")
  /\ subs[2].variables.userId = Str("2")
  /\ subs[1].skipped > 0 /\ subs[1].yielded = <<>>
  /\ subs[2].yielded # <<>>

\* the payloads accepted on the topic of subscription i since it was opened
SentSince(i) ==
  SubSeq(sent[TopicOf[subs[i].field]], subs[i].since + 1,
         Len(sent[TopicOf[subs[i].field]]))

\* C13: for every successful publish on USER_CREATED or USER_DELETED, each
\* subscription of the topic that was open before the publish and still is
\* gets exactly one envelope for it, carrying the published entity: what it
\* has yielded and what its iterator still holds are the payloads published
\* since it was opened, once each
EachOpenSubscriptionGetsOneEnvelope ==
  \A i \in DOMAIN subs :
    (subs[i].open /\ subs[i].field \in {"userCreated", "userDeleted"}) =>
      subs[i].yielded \o subs[i].inbox = SentSince(i)

\* two subscriptions open on USER_DELETED have both yielded the one envelope
\* published since they were opened
EachOpenSubscriptionGetsOneEnvelopeWitness ==
  /\ Len(subs) >= 2
  /\ subs[1].field = "userDeleted" /\ subs[2].field = "userDeleted"
  /\ subs[1].open /\ subs[2].open
  /\ Len(sent[USER_DELETED]) = 1
  /\ subs[1].yielded = sent[USER_DELETED]
  /\ subs[2].yielded = sent[USER_DELETED]

RECURSIVE IsSubSeq(_, _)
\* a is b with some elements left out
IsSubSeq(a, b) ==
  IF a = <<>> THEN TRUE
  ELSE IF b = <<>> THEN FALSE
  ELSE IF Head(a) = Head(b) THEN IsSubSeq(Tail(a), Tail(b))
  ELSE IsSubSeq(a, Tail(b))

\* the payloads accepted on the topic of subscription i while it was open
SentWhileOpen(i) ==
  IF subs[i].open THEN SentSince(i)
  ELSE SubSeq(sent[TopicOf[subs[i].field]], subs[i].since + 1, subs[i].until)

\* C14: a subscription never yields (nor holds) an envelope published before
\* it was created or after its subscriber went away: no replay, and a
\* subscription opened on reconnection starts empty
NoReplay ==
  \A i \in DOMAIN subs :
    /\ IsSubSeq(subs[i].yielded \o subs[i].inbox, SentWhileOpen(i))
    /\ Len(subs[i].yielded) + subs[i].skipped + Len(subs[i].inbox)
         <= Len(SentWhileOpen(i))

\* a subscriber has come back after a gap in which an envelope was published:
\* its new subscription has yielded a later envelope only
NoReplayWitness ==
  /\ Len(subs) >= 2
  /\ ~subs[1].open /\ subs[2].open
  /\ subs[1].field = "userCreated" /\ subs[2].field = "userCreated"
  /\ subs[1].until < subs[2].since
  /\ Len(subs[2].yielded) = 1
  /\ Len(sent[USER_CREATED]) = 2

\* the payloads subscription i has taken from its iterator so far
Consumed(i) == SubSeq(SentSince(i), 1, Len(SentSince(i)) - Len(subs[i].inbox))

\* C15: within one topic, the envelopes yielded to a subscription are in the
\* order of their publication, also when its filter skips some of them: an
\* open subscription has yielded, in order, the consumed payloads its filter
\* accepts, and holds the later ones in order
YieldedInPublishOrder ==
  \A i \in DOMAIN subs :
    IF subs[i].open
    THEN /\ subs[i].yielded =
              SelectSeq(Consumed(i), LAMBDA payload : OwnFilterAccepts(i, payload))
         /\ Consumed(i) \o subs[i].inbox = SentSince(i)
    ELSE IsSubSeq(subs[i].yielded, SentWhileOpen(i))

\* a subscription has yielded two different envelopes of its topic
YieldedInPublishOrderWitness ==
  \E i \in DOMAIN subs :
    /\ subs[i].open
    /\ subs[i].field = "userOnline"
    /\ Len(subs[i].yielded) = 2
    /\ subs[i].yielded[1] # subs[i].yielded[2]

PublishOperations ==
  {"publishUserCreated", "publishUserUpdated", "publishUserDeleted",
   "publishUserOnline"}

\* the topic, the wrapping field and the fields under it that the claim
\* gives for each publish operation
StatedTopic(op) ==
  CASE op = "publishUserCreated" -> "USER_CREATED"
    [] op = "publishUserUpdated" -> "USER_UPDATED"
    [] op = "publishUserDeleted" -> "USER_DELETED"
    [] op = "publishUserOnline" -> "USER_ONLINE"

StatedField(op) ==
  CASE op = "publishUserCreated" -> "userCreated"
    [] op = "publishUserUpdated" -> "userUpdated"
    [] op = "publishUserDeleted" -> "userDeleted"
    [] op = "publishUserOnline" -> "userOnline"

StatedBody(op) ==
  CASE op = "publishUserCreated" -> {"user", "timestamp"}
    [] op = "publishUserUpdated" -> {"user", "previousValues", "timestamp"}
    [] op = "publishUserDeleted" -> {"id", "email", "timestamp"}
    [] op = "publishUserOnline" -> {"user", "isOnline", "timestamp"}

\* C16: each publish operation issues exactly one broker publish, on its own
\* topic, of a payload wrapped under the field named after the topic with a
\* timestamp taken at publish time: USER_CREATED {userCreated: {user,
\* timestamp}}, USER_UPDATED {userUpdated: {user, previousValues, timestamp}},
\* USER_DELETED {userDeleted: {id, email, timestamp}}, USER_ONLINE
\* {userOnline: {user, isOnline, timestamp}}; a publish the broker refuses
\* reaches no topic
OnePublishOnOwnTopic ==
  [][published' # published =>
       LET op == lastPublish'.op
           topic == StatedTopic(op)
           n == Len(sent[topic])
       IN /\ published' = published + 1
          /\ op \in PublishOperations
          /\ \A t \in SUBSCRIPTION_TOPICS \ {topic} : sent'[t] = sent[t]
          /\ IF pubsubUp
             THEN /\ Len(sent'[topic]) = n + 1
                  /\ SubSeq(sent'[topic], 1, n) = sent[topic]
                  /\ sent'[topic][n + 1].key = StatedField(op)
                  /\ DOMAIN sent'[topic][n + 1].body = StatedBody(op)
                  /\ sent'[topic][n + 1].body.timestamp = now
             ELSE sent'[topic] = sent[topic]]_vars

\* publishUserOnline has published and a subscription of userOnline has
\* yielded its envelope
OnePublishOnOwnTopicWitness ==
  /\ lastPublish.op = "publishUserOnline"
  /\ ~lastPublish.failed
  /\ Len(sent[USER_ONLINE]) = 1
  /\ \E i \in DOMAIN subs :
       subs[i].field = "userOnline" /\ subs[i].yielded = sent[USER_ONLINE]

\* a step of a cleanup run, and the jobs the step takes out of the broker
CleanupStep == cleanup.pc = "running" /\ cleanup' # cleanup

RemovedNow ==
  {i \in Ids : jobs[i].status # "removed" /\ jobs'[i].status = "removed"}

\* C17: a cleanup pass removes only completed jobs that finished at least one
\* day ago and failed jobs that failed at least seven days ago; it removes no
\* younger finished job and no job that is waiting, active or delayed
CleanupRemovesOnlyAgedOut ==
  [][CleanupStep =>
       \A i \in RemovedNow :
         \/ /\ jobs[i].status = "completed"
            /\ now - jobs[i].finishedOn >= 24 * 60 * 60 * 1000
         \/ /\ jobs[i].status = "failed"
            /\ now - jobs[i].finishedOn >= 7 * 24 * 60 * 60 * 1000]_vars

\* a cleanup has returned and has removed jobs, and has left in place a job
\* completed a millisecond short of a day ago, a job failed two days ago, and
\* a job that it found active
CleanupRemovesOnlyAgedOutWitness ==
  /\ cleanup.pc = "returned"
  /\ \E k \in DOMAIN cleanup.results :
       /\ cleanup.results[k].cleanedCompleted # {}
       /\ cleanup.results[k].cleanedFailed # {}
  /\ \E i \in Ids : /\ jobs[i].status = "completed"
                    /\ now - jobs[i].finishedOn = 24 * 60 * 60 * 1000 - 1
  /\ \E i \in Ids : /\ jobs[i].status = "failed"
                    /\ now - jobs[i].finishedOn = 2 * 24 * 60 * 60 * 1000
  /\ \E i \in Ids : jobs[i].status = "active"

CleanupBoundsAgedOut ==
  cleanup.pc = "returned" =>
    \A q \in JOB_QUEUES :
      /\ Cardinality(Cleanable(q, "completed", 24 * 60 * 60 * 1000)) <= 50
      /\ Cardinality(Cleanable(q, "failed", 7 * 24 * 60 * 60 * 1000)) <= 20

\* C20: closeJobQueues is called only after stopJobWorkers has returned, with
\* every worker closed, and no job is in process when the queue-side
\* connection has been quit
WorkersClosedBeforeQueues ==
  /\ shutdown.closeJobQueues # "none" =>
       /\ shutdown.stopJobWorkers = "returned"
       /\ \A q \in JOB_QUEUES : workers[q] = "closed"
  /\ conn = "end" => \A i \in Ids : jobs[i].status # "active"

\* the connection has been quit after stopJobWorkers was called with a job in
\* process: the job has completed, another one was left waiting
WorkersClosedBeforeQueuesWitness ==
  /\ conn = "end"
  /\ shutdown.closeJobQueues = "returned"
  /\ \E i \in shutdown.inProcess : jobs[i].status = "completed"
  /\ \E i \in Ids : jobs[i].status = "waiting"

\* C21: once stopJobWorkers has been called no job goes from waiting to
\* active; stopJobWorkers returns only when every worker is closed and none of
\* the jobs that were in process at the call is still in process, however long
\* that takes
WorkersDrainBeforeStop ==
  [][/\ shutdown.stopJobWorkers # "none" =>
          \A i \in Ids :
            ~(jobs[i].status = "waiting" /\ jobs'[i].status = "active")
     /\ shutdown'.stopJobWorkers = "returned" =>
          /\ \A q \in JOB_QUEUES : workers'[q] = "closed"
          /\ \A i \in shutdown'.inProcess : jobs'[i].status # "active"
          /\ \A i \in Ids : jobs'[i].status # "active"]_vars

\* stopJobWorkers has returned: a job that was in process at the call finished
\* a limiter window after the call, and a retry that came due meanwhile is
\* still waiting
WorkersDrainBeforeStopWitness ==
  /\ shutdown.stopJobWorkers = "returned"
  /\ \E i \in shutdown.inProcess :
       /\ jobs[i].status = "completed"
       /\ jobs[i].finishedOn > shutdown.calledAt
  /\ \E i \in Ids : jobs[i].status = "waiting" /\ jobs[i].attemptsMade > 0

\* C22: when initializeJobQueues or startJobWorkers has failed the start is
\* given up: the server never serves, and no job is fetched by a worker whose
\* listeners were not attached
FailedStartIsFatal ==
  /\ (boot.initializeJobQueues = "threw" \/ boot.startJobWorkers = "threw")
       => boot.pc # "serving"
  /\ (\E i \in Ids : jobs[i].starts > 0) => boot.listeners

\* C23: a step of a 'stalled' listener, of the worker or of the queue events,
\* logs one warning and leaves every job (status, attemptsMade and the rest)
\* and every queue as it was; the job is where the broker's stalled check put it
StalledHandlersOnlyLog ==
  [][stalled'.warnLogs # stalled.warnLogs =>
       /\ stalled'.warnLogs = stalled.warnLogs + 1
       /\ jobs' = jobs
       /\ wait' = wait
       /\ UNCHANGED <<limiter, startLog, throws, lastCall>>]_vars

\* both listeners have run for a job that stalled once: it is waiting at the
\* head of its queue with the attempts it had
StalledHandlersOnlyLogWitness ==
  /\ stalled = [worker |-> <<>>, events |-> <<>>, warnLogs |-> 2]
  /\ \E i \in Ids :
       /\ jobs[i].stalledCounter = 1
       /\ jobs[i].status = "waiting"
       /\ jobs[i].attemptsMade = 0
       /\ Head(wait[jobs[i].queue]) = i

\* C24: the per-operation hooks only observe: every operation a connection
\* asked for ended as it would have with no hook installed
OperationHooksOnlyObserve ==
  \A c \in Conns : \A k \in DOMAIN gw.conns[c].ops :
    gw.conns[c].ops[k].outcome = gw.conns[c].ops[k].unhooked

\* C25: onConnect has run once for every connection that sent its
\* connection_init, the connection was accepted, and its result says
\* authenticated exactly when the connection parameters carry a non-empty
\* Authorization or authorization
OnConnectChecksPresenceOnly ==
  \A c \in Conns :
    gw.conns[c].state # "none" =>
      /\ gw.conns[c].onConnectCalls = 1
      /\ gw.conns[c].acknowledged
      /\ gw.conns[c].ack.isAuthenticated <=>
           \/ Truthy(gw.conns[c].connectionParams.Authorization)
           \/ Truthy(gw.conns[c].connectionParams.authorization)

\* C27: the options of the job an enqueue operation has just handed to the
\* broker are, key by key, the caller's override where the overrides have
\* the key and the default of the family where they have not: attempts
\* 3 / 3 / 5 / 2, backoff base delay 2000 / 1000 / 1500 / 5000 ms,
\* removeOnComplete 10 / 20 / 15 / 5 and removeOnFail 5 / 10 / 8 / 3
OverridesTakePrecedence ==
  LET default ==
        [q \in JOB_QUEUES |->
           CASE q = EMAIL ->
                  [attempts |-> 3, backoff |-> 2000,
                   removeOnComplete |-> 10, removeOnFail |-> 5]
             [] q = USER_PROCESSING ->
                  [attempts |-> 3, backoff |-> 1000,
                   removeOnComplete |-> 20, removeOnFail |-> 10]
             [] q = NOTIFICATIONS ->
                  [attempts |-> 5, backoff |-> 1500,
                   removeOnComplete |-> 15, removeOnFail |-> 8]
             [] q = DATA_EXPORT ->
                  [attempts |-> 2, backoff |-> 5000,
                   removeOnComplete |-> 5, removeOnFail |-> 3]]
  IN lastCall.jobId > 0 =>
       LET job == jobs[lastCall.jobId]
       IN \A k \in {"attempts", "backoff", "removeOnComplete", "removeOnFail"} :
            job.opts[k] = IF lastCall.options[k] # Undefined
                          THEN lastCall.options[k]
                          ELSE default[job.queue][k]

\* a data export job was enqueued with two overrides and two defaults
OverridesTakePrecedenceWitness ==
  /\ lastCall.op = "addDataExportJob"
  /\ lastCall.jobId > 0
  /\ lastCall.options["attempts"] = 4
  /\ lastCall.options["removeOnComplete"] = 0
  /\ lastCall.options["backoff"] = Undefined
  /\ lastCall.options["removeOnFail"] = Undefined
  /\ jobs[lastCall.jobId].opts["attempts"] = 4
  /\ jobs[lastCall.jobId].opts["removeOnComplete"] = 0
  /\ jobs[lastCall.jobId].opts["backoff"] = 5000
  /\ jobs[lastCall.jobId].opts["removeOnFail"] = 3

\* C28: a welcome-email job enqueued with no overrides is in the end claimed
\* and completed with progress 100 and a result that carries sentAt, unless
\* its handler raised an error; and it is never failed without its handler
\* having raised one
WelcomeEmailCompletes ==
  \A i \in 1..MaxJobs :
    /\ (/\ i \in Ids
        /\ jobs[i].name = SEND_WELCOME_EMAIL
        /\ jobs[i].opts = EmailJobOptions(NoOptions))
         ~> (/\ i \in Ids
             /\ \/ jobs[i].errorLogs > 0
                \/ /\ jobs[i].status = "completed"
                   /\ jobs[i].starts > 0
                   /\ jobs[i].progress = 100
                   /\ jobs[i].returnvalue = [success |-> TRUE, stamp |-> "sentAt"])
    /\ [](/\ i \in Ids
          /\ jobs[i].name = SEND_WELCOME_EMAIL
          /\ jobs[i].opts = EmailJobOptions(NoOptions)
          /\ jobs[i].status = "failed"
          => jobs[i].errorLogs > 0)

\* the welcome email sent at the first attempt
WelcomeEmailCompletesWitness ==
  \E i \in Ids :
    /\ jobs[i].queue = EMAIL
    /\ jobs[i].name = SEND_WELCOME_EMAIL
    /\ jobs[i].opts = EmailJobOptions(NoOptions)
    /\ jobs[i].status = "completed"
    /\ jobs[i].starts = 1
    /\ jobs[i].errorLogs = 0
    /\ jobs[i].progress = 100
    /\ jobs[i].returnvalue.stamp = "sentAt"

\* C29: every job an enqueue operation accepted is in the end started by the
\* worker of its queue, while the workers run and the broker is available
AcceptedJobsAreStarted ==
  \A i \in 1..MaxJobs : (i \in Ids) ~> (i \in Ids /\ jobs[i].starts > 0)

\* a job accepted with a delay has been promoted and started
AcceptedJobsAreStartedWitness ==
  \E i \in Ids :
    /\ jobs[i].opts["delay"] > 0
    /\ jobs[i].starts > 0
    /\ now >= jobs[i].processAt

\* C30: no job has two handler invocations in flight at the same time
OneHandlerPerJob ==
  \A i \in Ids : jobs[i].handlers <= 1

\* C30, amended: a job that the broker has never declared stalled has at most
\* one handler invocation in flight, whatever the other slots of its worker
\* are running
OneHandlerPerUnstalledJob ==
  \A i \in Ids : jobs[i].stalledCounter = 0 => jobs[i].handlers <= 1

\* two slots of a worker run two jobs at the same time, each job once
OneHandlerPerUnstalledJobWitness ==
  /\ \E i, k \in Ids :
       /\ i # k
       /\ jobs[i].queue = jobs[k].queue
       /\ jobs[i].status = "active" /\ jobs[i].handlers = 1
       /\ jobs[k].status = "active" /\ jobs[k].handlers = 1
       /\ jobs[i].stalledCounter = 0 /\ jobs[k].stalledCounter = 0
       /\ jobs[i].starts = 1 /\ jobs[k].starts = 1

\* C31: in production the gate passes a request on exactly when its
\* Authorization header is "Bearer " followed by the configured token, and
\* answers 401 otherwise; outside production it passes every request on
DashboardGate ==
  \A k \in DOMAIN dash.responses :
    LET r == dash.responses[k]
        authorized ==
          /\ dash.DASHBOARD_TOKEN.t = "string"
          /\ r.authorization = Str("Bearer " \o dash.DASHBOARD_TOKEN.v)
    IN IF dash.NODE_ENV = Str("production")
       THEN /\ r.next <=> authorized
            /\ ~r.next => r.status = 401
       ELSE r.next

\* C32: a step of a mutation that publishes an event or enqueues a job is
\* taken only after the mutation's persistence call has returned
\* successfully; a mutation whose persistence failed has called neither
PublishOnlyAfterCommit ==
  [][/\ (published' # published \/ lastCall' # lastCall \/ jobs' # jobs)
          => mut.persistence = "committed" /\ mut'.persistence = "committed"
     /\ mut'.persistence # "committed"
          => /\ mut'.calls = <<>>
             /\ published' = published /\ sent' = sent
             /\ jobs' = jobs /\ lastCall' = lastCall
             /\ mut'.op # "none" => mut'.outcome = "error"]_vars

\* a deleteUser whose delete was committed has published and enqueued, after
\* a signUp whose persistence failed
PublishOnlyAfterCommitWitness ==
  /\ mut.count = 2
  /\ mut.op = "deleteUser"
  /\ mut.persistence = "committed"
  /\ mut.outcome = "returned"
  /\ Len(sent[USER_DELETED]) = 1
  /\ Len(sent[USER_CREATED]) = 0
  /\ Len(jobs) = 1

\* C33: in signUp and deleteUser a failed publish never fails the mutation
\* and the enqueue after it is still called, while a failed enqueue is the
\* last call the mutation makes and the mutation ends with an error
FailedCalls(kind) ==
  {i \in 1..Len(mut.calls) :
     mut.calls[i].failed /\ (mut.calls[i].call = "publish") = (kind = "publish")}

PublishFailsSoftEnqueueFailsLoud ==
  (mut.op \in {"signUp", "deleteUser"} /\ mut.persistence = "committed") =>
    /\ \A i \in FailedCalls("publish") :
         \/ mut.pc = "addUserJob" /\ mut.outcome = "none"
         \/ Len(mut.calls) > i /\ mut.calls[i + 1].call = "addUserJob"
    /\ \A i \in FailedCalls("enqueue") :
         i = Len(mut.calls) /\ mut.pc = "idle" /\ mut.outcome = "error"
    /\ mut.outcome = "error" => FailedCalls("enqueue") # {}
    /\ (mut.pc = "idle" /\ FailedCalls("enqueue") = {}) =>
         /\ mut.outcome = "returned"
         /\ Len(mut.calls) = IF mut.op = "signUp" THEN 3 ELSE 2

\* a signUp whose publish failed has enqueued both jobs and returned, after a
\* deleteUser that ended with an error at its failed enqueue
PublishFailsSoftWitness ==
  /\ mut.count = 2
  /\ mut.op = "signUp"
  /\ mut.outcome = "returned"
  /\ FailedCalls("publish") = {1}
  /\ Len(jobs) = 2
  /\ Len(sent[USER_DELETED]) = 1
  /\ Len(sent[USER_CREATED]) = 0

(***************************************************************************)
(* Retries.                                                                *)
(***************************************************************************)
StatedBase(q) ==
  CASE q = EMAIL -> 2000
    [] q = USER_PROCESSING -> 1000
    [] q = NOTIFICATIONS -> 1500
    [] q = DATA_EXPORT -> 5000

FailedAttempt(i) ==
  /\ throws' = throws + 1
  /\ jobs[i].status = "active"
  /\ jobs'[i] # jobs[i]

\* C34: the k-th failed attempt of a job raises its attempts made by one (so
\* one attempt fewer remains); when attempts remain, the job becomes delayed
\* until the time of the failure plus base * 2^(k-1), base being 2000 ms for
\* email, 1000 ms for user, 1500 ms for notification and 5000 ms for data
\* export jobs; a delayed job leaves delayed only for waiting and only once
\* that time has come, and a job is started only from waiting
RetryAfterExponentialBackoff ==
  [][\A i \in Ids :
       /\ FailedAttempt(i) =>
            /\ jobs'[i].attemptsMade = jobs[i].attemptsMade + 1
            /\ jobs'[i].attemptsMade < jobs[i].opts["attempts"] =>
                 /\ jobs'[i].status = "delayed"
                 /\ jobs'[i].processAt =
                      now + StatedBase(jobs[i].queue)
                              * 2 ^ (jobs'[i].attemptsMade - 1)
       /\ jobs[i].status = "delayed" =>
            /\ jobs'[i].processAt = jobs[i].processAt
            /\ jobs'[i].status \in {"delayed", "waiting"}
            /\ jobs'[i].status = "waiting" => now >= jobs[i].processAt
       /\ jobs'[i].starts # jobs[i].starts => jobs[i].status = "waiting"]_vars

\* a notification job is running its fourth attempt, which was started after
\* delays of 1500, 3000 and 6000 ms
RetryAfterExponentialBackoffWitness ==
  \E i \in Ids :
    /\ jobs[i].queue = NOTIFICATIONS
    /\ jobs[i].status = "active"
    /\ jobs[i].attemptsMade = 3
    /\ jobs[i].starts = 4
    /\ jobs[i].delays = <<1500, 3000, 6000>>
    /\ now >= 10500

(***************************************************************************)
(* Progress.                                                               *)
(***************************************************************************)
StrictlyIncreasing(seq) ==
  \A k \in 1..(Len(seq) - 1) : seq[k] < seq[k + 1]

StatedProgress(q, name) ==
  CASE q = EMAIL -> {<<100>>}
    [] q = USER_PROCESSING -> {<<25, 50, 75, 100>>}
    [] q = NOTIFICATIONS -> {<<25, 75, 100>>}
    [] q = DATA_EXPORT /\ name = EXPORT_USER_DATA -> {<<10, 40, 70, 90, 100>>}
    [] q = DATA_EXPORT /\ name = CLEANUP_EXPIRED_TOKENS -> {<<10, 50, 100>>}
    [] OTHER -> {}

\* C35: the progress values one handler execution has reported are strictly
\* increasing and lie in 0..100; a handler that returned for a job whose type
\* it recognises reported the checkpoints of its family, the last being 100
ProgressCheckpoints ==
  \A i \in Ids :
    /\ StrictlyIncreasing(jobs[i].reported)
    /\ \A k \in 1..Len(jobs[i].reported) : jobs[i].reported[k] \in 0..100
    /\ (jobs[i].status = "completed" /\ jobs[i].warnLogs = 0) =>
         /\ jobs[i].reported \in StatedProgress(jobs[i].queue, jobs[i].name)
         /\ jobs[i].reported[Len(jobs[i].reported)] = 100
         /\ jobs[i].progress = 100

\* a token cleanup has completed after reporting 10, 50, 100, its first
\* attempt having failed at a progress report
ProgressCheckpointsWitness ==
  \E i \in Ids :
    /\ jobs[i].name = CLEANUP_EXPIRED_TOKENS
    /\ jobs[i].status = "completed"
    /\ jobs[i].reported = <<10, 50, 100>>
    /\ jobs[i].starts = 2

\* C36: a job with a type tag its queue's handler does not recognise does not
\* fail for it: a run of the email, user or data-export handler on such a job
\* ends, unless one of its progress reports was rejected, with one warning
\* and a success result, the job is completed (progress 100, 25 and 10) and a
\* completed job is never started again
UnknownTypeCompletes ==
  [][\A i \in Ids :
       (jobs[i].name \notin AllowedTypes[jobs[i].queue]
          /\ jobs[i].queue \in {EMAIL, USER_PROCESSING, DATA_EXPORT}) =>
         /\ (jobs[i].status = "active" /\ jobs'[i].status # "active") =>
              \/ jobs'[i].raised \in Errors
              \/ /\ jobs'[i].status = "completed"
                 /\ throws' = throws
                 /\ jobs'[i].warnLogs = jobs[i].warnLogs + 1
                 /\ jobs'[i].returnvalue.success
                 /\ jobs'[i].progress =
                      CASE jobs[i].queue = EMAIL -> 100
                        [] jobs[i].queue = USER_PROCESSING -> 25
                        [] jobs[i].queue = DATA_EXPORT -> 10
         /\ jobs[i].status = "completed" =>
              /\ jobs'[i].status \in {"completed", "removed"}
              /\ jobs'[i].starts = jobs[i].starts]_vars

\* a user job with an unknown type tag is completed with progress 25
UnknownTypeCompletesWitness ==
  \E i \in Ids :
    /\ jobs[i].queue = USER_PROCESSING
    /\ jobs[i].name = UnknownType
    /\ jobs[i].status = "completed"
    /\ jobs[i].progress = 25
    /\ jobs[i].warnLogs = 1
    /\ jobs[i].starts = 1

\* the subscriptions opened without a userId: absent, null or the empty string
WithoutUserId ==
  {i \in FilteredSubs :
     \/ subs[i].variables.userId.t \in {"undefined", "null"}
     \/ subs[i].variables.userId = Str("")}

\* C37: a userUpdated or userOnline subscription opened without a userId
\* (absent, null or empty) skips no envelope: while it is open, what it has
\* yielded and what its iterator still holds are the envelopes published on
\* its topic since it was opened; only a subscription with a non-empty userId
\* ever skips one
UnfilteredSubscriptionYieldsAll ==
  \A i \in FilteredSubs :
    /\ i \in WithoutUserId =>
         /\ subs[i].skipped = 0
         /\ subs[i].open => subs[i].yielded \o subs[i].inbox = SentSince(i)
         /\ IsSubSeq(subs[i].yielded, SentWhileOpen(i))
    /\ subs[i].skipped > 0 =>
         /\ subs[i].variables.userId.t = "string"
         /\ subs[i].variables.userId.v # ""

\* a userOnline subscription opened with userId null has yielded the
\* envelopes of two users
UnfilteredSubscriptionYieldsAllWitness ==
  \E i \in WithoutUserId :
    /\ subs[i].field = "userOnline"
    /\ subs[i].variables.userId = NullValue
    /\ Len(subs[i].yielded) = 2
    /\ subs[i].yielded[1].body.user.id # subs[i].yielded[2].body.user.id

(***************************************************************************)
(* Statistics.                                                             *)
(***************************************************************************)
\* C38: getQueueStats never raises: a call that has ended has returned; when
\* a read failed it has logged the error and returned the empty map, whatever
\* it had collected; otherwise its map has one entry per declared queue, in
\* order, each with the five counts waiting, active, completed, failed and
\* delayed
GetQueueStatsNeverRaises ==
  /\ stats.pc \in {"idle", "running", "returned"}
  /\ stats.pc = "returned" =>
       \/ /\ stats.at <= Len(QueueEntries)
          /\ stats.returned = <<>>
       \/ /\ stats.at = Len(QueueEntries) + 1
          /\ Len(stats.returned) = Len(QueueEntries)
          /\ \A k \in 1..Len(QueueEntries) :
               /\ stats.returned[k].name = QueueEntries[k].name
               /\ DOMAIN stats.returned[k].counts =
                    {"waiting", "active", "completed", "failed", "delayed"}
               /\ \A c \in DOMAIN stats.returned[k].counts :
                    stats.returned[k].counts[c] \in 0..MaxJobs
  /\ stats.errorLogs <= stats.calls

\* the second call returned the empty map after it had collected the counts
\* of two queues, a completed email job among them
GetQueueStatsNeverRaisesWitness ==
  /\ stats.calls = 2
  /\ stats.pc = "returned"
  /\ stats.returned = <<>>
  /\ Len(stats.stats) = 2
  /\ stats.errorLogs = 1
  /\ stats.stats[1].counts.completed = 1

====
